---------------------------- MODULE Spec2Model ----------------------------
(***************************************************************************)
(* Hierarchical geospatial streaming and enrichment pipeline of            *)
(* rampedro/geo-analyic-statscan.                                          *)
(*                                                                         *)
(* Two implementations of StatCanService are in the repository:            *)
(*   "part_000"  src/unnamed/part_000  (CHUNK_SIZE 50, 10% bounds buffer)  *)
(*   "part_001"  src/unnamed/part_001  (CHUNK_SIZE 100, 20% bounds buffer) *)
(* src/App.tsx calls fetchCodeSets, processGeometry and                    *)
(* getMetricsForPoints, which only part_001 defines, so the App            *)
(* specification runs on part_001; the service specifications run on both. *)
(*                                                                         *)
(* Numbers: coordinates are integers, a centroid is a pair of rationals    *)
(* (numerator, denominator); comparisons are exact (no rounding).          *)
(* Objects: every parsed JSON document is an object of `heap`, named by    *)
(* its tier and its rank among the tier's documents; a feature is named    *)
(* by <<tier, document, index in features>>.                               *)
(***************************************************************************)
EXTENDS Integers, Sequences, FiniteSets, TLC

VARIABLES
    \* StatCanService
    impl,        \* which StatCanService implementation runs
    chunkSize,   \* CHUNK_SIZE of streamShapes (50 in part_000, 100 in part_001)
    source,      \* what each tier's geometry endpoint serves (its features)
    heap,        \* the JSON documents parsed so far, per tier
    cache,       \* StatCanService.cache, by tier (GEOJSON_SOURCES is 1:1)
    genCount,    \* Math.random() draws made for `gen-` ids
    calls,       \* service calls in progress (fetchGeoJSON / streamShapes)
    baselineCache,   \* StatCanService.baselineCache
    scalarCodes,     \* StatCanService.scalarCodes
    baselineCalls,   \* fetchLiveBaseline calls in progress
    \* App (React state and refs)
    zoom,             \* viewState.zoom, in tenths
    lod,              \* lod
    showLoadButton,   \* showLoadButton
    effectPending,    \* the zoom effect is scheduled (its dependencies changed)
    initPc,           \* where the init effect stands
    tasks,            \* tasks (their ids)
    layerCache,       \* layerCache: per tier, the features held (references)
    masterPoints,     \* masterPointsRef.current: the Map's entries, in order
    detailedPoints,   \* detailedPoints
    activeProducts,   \* activeProducts (their ids)
    loadedProductIds, \* loadedProductIds.current
    load,             \* the handleLoadArea in flight
    changes,          \* the handleProductsChange calls in flight
    \* getMetricsForPoints and getCentroid called on their own
    points,           \* the point objects handed to getMetricsForPoints
    metricsCall,      \* the getMetricsForPoints call in progress
    givenGeometry,    \* the geometry handed to getCentroid
    gotCentroid,      \* what getCentroid returned for it
    givenPoint,       \* the point and the bounds handed to isPointInBounds
    accepted,         \* what isPointInBounds returned for them, per version
    \* history
    hTransition,      \* the last tier transition
    hMerge,           \* the last merge of points into the Master Point Store
    hLoads,           \* the last load whose stream ended
    hFetches,         \* network requests sent so far, per tier
    hBaseline,        \* the last live value fetchLiveBaseline returned, per product
    hResolution,      \* how the last baseline resolution ended, per product
    hCodeSets         \* the requests sent to the code-set endpoint so far

svcVars == <<impl, chunkSize, source, heap, cache, genCount, calls>>

appVars == <<zoom, lod, showLoadButton, effectPending, initPc, tasks, layerCache,
             masterPoints, detailedPoints, activeProducts, loadedProductIds,
             load, changes>>

histVars == <<hTransition, hMerge, hLoads, hFetches, hBaseline, hResolution, hCodeSets>>

metricsVars == <<points, metricsCall>>

centroidVars == <<givenGeometry, gotCentroid>>

boundsVars == <<givenPoint, accepted>>

wdsVars == <<baselineCache, scalarCodes, baselineCalls>>

vars == <<svcVars, wdsVars, appVars, metricsVars, centroidVars, boundsVars, histVars>>

-----------------------------------------------------------------------------
(* Bounds of the model *)

MaxLen == 3        \* longest feature collection enumerated for a single stream
MaxChunk == 2      \* largest chunk size tried on the enumerated collections
ScenarioLen == 130 \* length of the long all-in-bounds collection
MaxCalls == 2      \* service calls in flight at a time
MaxZoom10 == 130   \* largest zoom (times ten) of the tier specification
MaxChanges == 1    \* concurrent activations of handleProductsChange
MaxCoordinate == 2 \* largest coordinate of the vertices of the enumerated rings
MaxRingLen == 3    \* longest enumerated ring

\* const CHUNK_SIZE = 50 (part_000) and = 100 (part_001)
CHUNK_SIZE_000 == 50
CHUNK_SIZE_001 == 100

-----------------------------------------------------------------------------
(* Tiers and the geometry source registry *)

LODLevel == {"PROVINCE", "CMA", "CD", "CCS", "FSA", "DA"}

Impls == {"part_000", "part_001"}

\* GEOJSON_SOURCES: one URL per tier, all distinct; the URL is named by its tier.
GEOJSON_SOURCES(level) == level

-----------------------------------------------------------------------------
(* Geometry *)

Pt(x, y) == <<x, y>>

Rect(x0, y0, x1, y1) == << Pt(x0, y0), Pt(x1, y0), Pt(x1, y1), Pt(x0, y1) >>

NullGeometry == [type |-> "null", coordinates |-> <<>>]

Polygon(rings) == [type |-> "Polygon", coordinates |-> rings]

MultiPolygon(polys) == [type |-> "MultiPolygon", coordinates |-> polys]

RECURSIVE SumCoord(_, _)
SumCoord(ring, k) ==
    IF ring = <<>> THEN 0 ELSE ring[1][k] + SumCoord(Tail(ring), k)

MinCoord(ring, k) ==
    CHOOSE m \in {ring[i][k] : i \in DOMAIN ring} :
        \A j \in DOMAIN ring : m <= ring[j][k]

MaxCoord(ring, k) ==
    CHOOSE m \in {ring[i][k] : i \in DOMAIN ring} :
        \A j \in DOMAIN ring : m >= ring[j][k]

\* (maxX - minX) * (maxY - minY); an empty ring leaves the four at
\* +-Infinity, and (-Infinity - Infinity) * (-Infinity - Infinity) = Infinity.
BBoxArea(ring) ==
    IF ring = <<>>
    THEN [inf |-> TRUE, v |-> 0]
    ELSE [inf |-> FALSE,
          v |-> (MaxCoord(ring, 1) - MinCoord(ring, 1))
                 * (MaxCoord(ring, 2) - MinCoord(ring, 2))]

\* A comparison that also lets an equal area replace the largest.
AreaAtLeast(a, m) ==
    IF a.inf THEN TRUE
    ELSE IF m.inf THEN FALSE ELSE a.v >= m.v

\* area > maxArea
AreaGreater(a, m) ==
    IF a.inf THEN ~m.inf
    ELSE IF m.inf THEN FALSE ELSE a.v > m.v

\* The forEach of getCentroid over the sub-polygons k..Len(polys), carrying
\* maxArea and the index of largestPoly.
RECURSIVE LargestFrom(_, _, _, _)
LargestFrom(polys, k, maxArea, largest) ==
    IF k > Len(polys) THEN largest
    ELSE LET area == BBoxArea(polys[k][1])
         IN  IF AreaGreater(area, maxArea)
             THEN LargestFrom(polys, k + 1, area, k)
             ELSE LargestFrom(polys, k + 1, maxArea, largest)

CentroidNull == [tag |-> "null"]

CentroidThrow == [tag |-> "throw"]

\* A mean that keeps the input order (longitude, latitude).
RingMeanLngLat(ring) ==
    IF Len(ring) = 0 THEN CentroidNull
    ELSE [tag |-> "ok",
          lat |-> [num |-> SumCoord(ring, 1), den |-> Len(ring)],
          lng |-> [num |-> SumCoord(ring, 2), den |-> Len(ring)]]

\* [y / ring.length, x / ring.length]: (latitude, longitude)
RingMean(ring) ==
    IF Len(ring) = 0 THEN CentroidNull
    ELSE [tag |-> "ok",
          lat |-> [num |-> SumCoord(ring, 2), den |-> Len(ring)],
          lng |-> [num |-> SumCoord(ring, 1), den |-> Len(ring)]]

getCentroid(geometry) ==
    IF geometry.type = "null" THEN CentroidNull
    ELSE IF geometry.type = "MultiPolygon" THEN
        LET polygon == geometry.coordinates
        IN  IF polygon = <<>>
            THEN CentroidThrow        \* largestPoly undefined, undefined[0]
            ELSE IF \E k \in DOMAIN polygon : polygon[k] = <<>>
            THEN CentroidThrow        \* ring undefined, undefined.forEach
            ELSE RingMean(polygon[LargestFrom(polygon, 1, [inf |-> FALSE, v |-> 0], 1)][1])
    ELSE IF geometry.type = "Polygon" THEN
        LET polygon == geometry.coordinates
        IN  IF polygon = <<>> THEN CentroidNull ELSE RingMean(polygon[1])
    ELSE CentroidNull

\* The two versions with each other's buffer fraction.
BufferTenthsSwapped(im) == IF im = "part_000" THEN 2 ELSE 1

\* The buffer fraction, in tenths: 0.1 in part_000, 0.2 in part_001.
BufferTenths(im) == IF im = "part_000" THEN 1 ELSE 2

\* The body of isPointInBounds with the buffer fraction t / 10:
\* lat <= north + latBuf /\ lat >= south - latBuf /\ lng <= east + lngBuf /\
\* lng >= west - lngBuf, with lat = lat.num / lat.den and the buffers
\* t * span / 10, all multiplied by 10 * den (den > 0).
InBoundsWith(t, lat, lng, bounds) ==
    LET latBuf10 == (bounds.north - bounds.south) * t
        lngBuf10 == (bounds.east - bounds.west) * t
    IN  /\ 10 * lat.num <= lat.den * (10 * bounds.north + latBuf10)
        /\ 10 * lat.num >= lat.den * (10 * bounds.south - latBuf10)
        /\ 10 * lng.num <= lng.den * (10 * bounds.east + lngBuf10)
        /\ 10 * lng.num >= lng.den * (10 * bounds.west - lngBuf10)

isPointInBounds(im, lat, lng, bounds) ==
    InBoundsWith(BufferTenths(im), lat, lng, bounds)


-----------------------------------------------------------------------------
(* Features *)

\* The attribute bag: the keys the service reads; "" is an absent (or empty,
\* equally falsy) value.
Props(id, da, fsa, ccs, cd, cma, pr) ==
    [id |-> id, DAUID |-> da, CFSAUID |-> fsa, CCSUID |-> ccs,
     CDUID |-> cd, CMAUID |-> cma, PRUID |-> pr]

NoProps == Props("", "", "", "", "", "", "")

Feature(geometry, properties) ==
    [geometry |-> geometry, properties |-> properties]

\* An identifier that is the same for every draw.
GenIdFixed(n) == "gen-"

\* `gen-${Math.random()}` (part_001: `gen-${Math.random().toString(36)
\* .substr(2,9)}`): the n-th draw of the process. Draws are taken to be
\* pairwise distinct.
GenId(n) == "gen-" \o ToString(n)

\* props.DAUID || props.CFSAUID || props.CCSUID || props.CDUID ||
\* props.CMAUID || props.PRUID
NaturalKey(props) ==
    IF props.DAUID # "" THEN props.DAUID
    ELSE IF props.CFSAUID # "" THEN props.CFSAUID
    ELSE IF props.CCSUID # "" THEN props.CCSUID
    ELSE IF props.CDUID # "" THEN props.CDUID
    ELSE IF props.CMAUID # "" THEN props.CMAUID
    ELSE props.PRUID

\* ... || `gen-...`, with n the draw Math.random() would make
ResolveId(props, n) ==
    IF NaturalKey(props) # "" THEN NaturalKey(props) ELSE GenId(n)

\* An injection that resolves the id again on every pass.
InjectIdAgain(f, n) == [f EXCEPT !.properties.id = ResolveId(f.properties, n)]

\* if (!f.properties.id) f.properties.id = ...
InjectId(f, n) ==
    IF f.properties.id # "" THEN f
    ELSE [f EXCEPT !.properties.id = ResolveId(f.properties, n)]

\* Whether InjectId evaluates Math.random() for f.
DrawsId(f) == f.properties.id = "" /\ NaturalKey(f.properties) = ""

-----------------------------------------------------------------------------
(* streamShapes: the generator *)

\* centroid && this.isPointInBounds(centroid[0], centroid[1], bounds)
Qualifies(im, f, bounds) ==
    LET c == getCentroid(f.geometry)
    IN  c.tag = "ok" /\ isPointInBounds(im, c.lat, c.lng, bounds)

\* A generator (or a fetchGeoJSON call): where it stands and its locals.
\*   pc: "idle"    not called
\*       "fetch"   awaiting fetch(url) / res.json()
\*       "run"     executing its for loop, before feature i (JavaScript runs
\*                 it to the next await or yield before anything else runs)
\*       "yielded" a chunk was handed to the consumer (value); atEnd tells
\*                 whether it was the chunk after the loop
\*       "timer"   awaiting the setTimeout after a chunk yielded in the loop
\*       "done"    returned            "threw"  raised an exception
\*   data: the object the generator walks; chunk: the indices pushed since
\*   the last yield; result: the object fetchGeoJSON returned (0: none)
\*   out: history, the chunks yielded so far; net: history, how the call's
\*   network request ended ("none": no request, or not ended yet)
IdleCall ==
    [kind |-> "none", pc |-> "idle", level |-> "PROVINCE",
     bounds |-> [north |-> 0, south |-> 0, east |-> 0, west |-> 0],
     data |-> 0, i |-> 1, chunk |-> <<>>, value |-> <<>>, atEnd |-> FALSE,
     out |-> <<>>, result |-> 0, net |-> "none"]

\* if (chunk.length > 0) yield chunk; and the return after it
EndOfLoop(g) ==
    IF Len(g.chunk) > 0
    THEN [g EXCEPT !.pc = "yielded", !.value = g.chunk, !.atEnd = TRUE,
                   !.out = Append(g.out, g.chunk)]
    ELSE [g EXCEPT !.pc = "done"]

\* if (chunk.length >= CHUNK_SIZE) yield chunk; at the end of an iteration
\* that leaves `chunk`, and the move to the next feature
EndOfIteration(size, g, chunk) ==
    IF Len(chunk) >= size
    THEN [g EXCEPT !.pc = "yielded", !.value = chunk, !.atEnd = FALSE,
                   !.chunk = chunk, !.i = g.i + 1,
                   !.out = Append(g.out, chunk)]
    ELSE [g EXCEPT !.chunk = chunk, !.i = g.i + 1]

\* One iteration of `for (const f of features)` (or the end of the loop) of
\* the running generator g over fs = data.features, n draws of Math.random()
\* having been made: the generator and the features (an id may be injected)
\* afterwards, and the draws made.
LoopStep(im, size, g, fs, n) ==
    IF g.i > Len(fs)
    THEN [gen |-> EndOfLoop(g), features |-> fs, draws |-> 0]
    ELSE IF im = "part_001" /\ fs[g.i].geometry.type = "null"
    THEN [gen |-> [g EXCEPT !.i = g.i + 1], features |-> fs, draws |-> 0]
    ELSE IF getCentroid(fs[g.i].geometry).tag = "throw"
    THEN [gen |-> [g EXCEPT !.pc = "threw"], features |-> fs, draws |-> 0]
    ELSE IF Qualifies(im, fs[g.i], g.bounds)
    THEN [gen |-> EndOfIteration(size, g, Append(g.chunk, g.i)),
          features |-> [fs EXCEPT ![g.i] = InjectId(fs[g.i], n + 1)],
          draws |-> IF DrawsId(fs[g.i]) THEN 1 ELSE 0]
    ELSE [gen |-> EndOfIteration(size, g, g.chunk), features |-> fs, draws |-> 0]

-----------------------------------------------------------------------------
(* The network and the JSON heap *)

\* How a request to a geometry endpoint can end:
\*   "ok"      200 and a feature collection
\*   "httperr" an error status (res.ok false) with a JSON body that is no
\*             feature collection
\*   "neterr"  fetch() rejects
\*   "badjson" res.json() rejects
Outcomes == {"ok", "httperr", "neterr", "badjson"}

\* The parsed body of a response.
Body(level, outcome) ==
    IF outcome = "ok"
    THEN [type |-> "FeatureCollection", level |-> level, features |-> source[level]]
    ELSE [type |-> "ErrorBody", level |-> level, features |-> <<>>]

\* { type: "FeatureCollection", features: [] }
EmptyCollection(level) ==
    [type |-> "FeatureCollection", level |-> level, features |-> <<>>]

\* fetchGeoJSON: res.json() is cached whenever it parses (res.ok is not read).
FetchGeoJSONCaches(outcome) == outcome \in {"ok", "httperr"}

\* streamShapes: part_001 throws on !res.ok, part_000 does not read it.
StreamCaches(im, outcome) ==
    \/ outcome = "ok"
    \/ outcome = "httperr" /\ im = "part_000"

-----------------------------------------------------------------------------
(* StatCanService.fetchGeoJSON *)

\* JavaScript is single-threaded: while a generator runs its loop nothing
\* else starts, settles or fires.
Quiescent == \A c \in DOMAIN calls : calls[c].pc # "run"

\* const url = GEOJSON_SOURCES[level]; if (this.cache[url]) return it;
\* otherwise the request goes out and the call is suspended.
CallFetchGeoJSON(c, level) ==
    /\ Quiescent
    /\ calls[c].pc = "idle"
    /\ calls' = [calls EXCEPT ![c] =
            IF cache[GEOJSON_SOURCES(level)] # 0
            THEN [@ EXCEPT !.kind = "fetchGeoJSON", !.level = level,
                           !.pc = "done",
                           !.result = cache[GEOJSON_SOURCES(level)]]
            ELSE [@ EXCEPT !.kind = "fetchGeoJSON", !.level = level,
                           !.pc = "fetch"]]
    /\ UNCHANGED <<impl, chunkSize, source, genCount, heap, cache>>

\* The request of a suspended fetchGeoJSON ends. Parsed data is cached and
\* returned; on a rejection part_000 returns a new empty collection and
\* part_001 (no try/catch) lets the exception out.
SettleFetchGeoJSON(c, outcome) ==
    /\ Quiescent
    /\ calls[c].kind = "fetchGeoJSON"
    /\ calls[c].pc = "fetch"
    /\ LET level == calls[c].level
           obj == Len(heap[level]) + 1
       IN  IF FetchGeoJSONCaches(outcome)
           THEN /\ heap' = [heap EXCEPT ![level] = Append(@, Body(level, outcome))]
                /\ cache' = [cache EXCEPT ![GEOJSON_SOURCES(level)] = obj]
                /\ calls' = [calls EXCEPT ![c] =
                        [@ EXCEPT !.pc = "done", !.result = obj, !.net = outcome]]
           ELSE IF impl = "part_000"
           THEN /\ heap' = [heap EXCEPT ![level] = Append(@, EmptyCollection(level))]
                /\ calls' = [calls EXCEPT ![c] =
                        [@ EXCEPT !.pc = "done", !.result = obj, !.net = outcome]]
                /\ UNCHANGED cache
           ELSE /\ calls' = [calls EXCEPT ![c] =
                        [@ EXCEPT !.pc = "threw", !.net = outcome]]
                /\ UNCHANGED <<heap, cache>>
    /\ UNCHANGED <<impl, chunkSize, source, genCount>>

-----------------------------------------------------------------------------
(* StatCanService.streamShapes *)

\* streamShapes(level, bounds) and the consumer's first next(): on a cache
\* hit the loop starts; otherwise the request goes out.
CallStreamShapes(c, level, bounds) ==
    /\ Quiescent
    /\ calls[c].pc = "idle"
    /\ calls' = [calls EXCEPT ![c] =
            IF cache[GEOJSON_SOURCES(level)] # 0
            THEN [@ EXCEPT !.kind = "streamShapes", !.level = level,
                           !.bounds = bounds, !.pc = "run",
                           !.data = cache[GEOJSON_SOURCES(level)]]
            ELSE [@ EXCEPT !.kind = "streamShapes", !.level = level,
                           !.bounds = bounds, !.pc = "fetch"]]
    /\ UNCHANGED <<impl, chunkSize, source, genCount, heap, cache>>

\* The request of a suspended streamShapes ends: the data is cached and the
\* loop starts, or (catch) the generator returns.
SettleStreamFetch(c, outcome) ==
    /\ Quiescent
    /\ calls[c].kind = "streamShapes"
    /\ calls[c].pc = "fetch"
    /\ LET level == calls[c].level
           obj == Len(heap[level]) + 1
       IN  IF StreamCaches(impl, outcome)
           THEN /\ heap' = [heap EXCEPT ![level] = Append(@, Body(level, outcome))]
                /\ cache' = [cache EXCEPT ![GEOJSON_SOURCES(level)] = obj]
                /\ calls' = [calls EXCEPT ![c] =
                        [@ EXCEPT !.pc = "run", !.data = obj, !.net = outcome]]
           ELSE /\ calls' = [calls EXCEPT ![c] =
                        [@ EXCEPT !.pc = "done", !.net = outcome]]
                /\ UNCHANGED <<heap, cache>>
    /\ UNCHANGED <<impl, chunkSize, source, genCount>>

\* The running generator executes one iteration of its loop.
StreamStep(c) ==
    /\ calls[c].kind = "streamShapes"
    /\ calls[c].pc = "run"
    /\ LET r == LoopStep(impl, chunkSize, calls[c],
                          heap[calls[c].level][calls[c].data].features, genCount)
       IN  /\ calls' = [calls EXCEPT ![c] = r.gen]
           /\ heap' = [heap EXCEPT ![calls[c].level][calls[c].data].features =
                                r.features]
           /\ genCount' = genCount + r.draws
    /\ UNCHANGED <<impl, chunkSize, source, cache>>

\* The consumer asks for the next chunk: after the chunk that followed the
\* loop the generator returns; inside the loop it empties its chunk and
\* awaits the timeout.
StreamNext(c) ==
    /\ Quiescent
    /\ calls[c].kind = "streamShapes"
    /\ calls[c].pc = "yielded"
    /\ calls' = [calls EXCEPT ![c] =
            [@ EXCEPT !.pc = IF calls[c].atEnd THEN "done" ELSE "timer",
                      !.chunk = <<>>, !.value = <<>>]]
    /\ UNCHANGED <<impl, chunkSize, source, genCount, heap, cache>>

\* The timeout fires and the loop goes on.
StreamTimer(c) ==
    /\ Quiescent
    /\ calls[c].kind = "streamShapes"
    /\ calls[c].pc = "timer"
    /\ calls' = [calls EXCEPT ![c] = [@ EXCEPT !.pc = "run"]]
    /\ UNCHANGED <<impl, chunkSize, source, genCount, heap, cache>>

-----------------------------------------------------------------------------
(* Inputs: viewports and features *)

\* Viewport bounds. With the wide one the buffered latitude range is
\* [-1, 11] at 10% and [-2, 12] at 20%.
WideBounds == [north |-> 10, south |-> 0, east |-> 10, west |-> 0]

NarrowBounds == [north |-> 4, south |-> 2, east |-> 4, west |-> 2]

ViewBounds == {WideBounds, NarrowBounds}

\* centroid (3, 3): inside both viewports
InPolygon == Polygon(<< Rect(2, 2, 4, 4) >>)

\* centroid (lat 23/2, lng 2): inside the wide viewport at 20% only
EdgePolygon == Polygon(<< Rect(1, 11, 3, 12) >>)

\* centroid (30, 30): outside
OutPolygon == Polygon(<< Rect(29, 29, 31, 31) >>)

\* sub-polygon 1 has bounding-box area 4 and lies outside, sub-polygon 2
\* has area 9 and centroid (lat 7/2, lng 7/2)
InMultiPolygon == MultiPolygon(<< << Rect(40, 40, 42, 42) >>, << Rect(2, 2, 5, 5) >> >>)

PointGeometry == [type |-> "Point", coordinates |-> Pt(3, 3)]

NoRingPolygon == Polygon(<< >>)

EmptyMultiPolygon == MultiPolygon(<< >>)

NoRingMultiPolygon == MultiPolygon(<< << Rect(2, 2, 4, 4) >>, << >> >>)

\* The features the single-stream specification builds collections from.
FeatureKinds ==
    { Feature(InPolygon, Props("", "", "", "", "cd1", "", "pr1")),
      Feature(InPolygon, NoProps),
      Feature(EdgePolygon, Props("", "da1", "", "", "", "", "")),
      Feature(OutPolygon, Props("", "", "", "", "cd2", "", "")),
      Feature(InMultiPolygon, Props("", "da3", "", "", "cd3", "", "")),
      Feature(PointGeometry, NoProps),
      Feature(NullGeometry, NoProps),
      Feature(EmptyMultiPolygon, NoProps) }

\* ScenarioLen features, all inside the viewports.
LongCollection ==
    [k \in 1..ScenarioLen |-> Feature(InPolygon, Props("", "", "", "", ToString(k), "", ""))]

Collections == UNION {[1..n -> FeatureKinds] : n \in 0..MaxLen}

NoSource == [t \in LODLevel |-> <<>>]

-----------------------------------------------------------------------------
(* StatCanService: live baselines (part_001) *)

\* Products of CATALOG: population, and the one of category Housing.
P_POPULATION == "98100001"

P_HOUSING == "18100205"

CatalogIds == {P_POPULATION, P_HOUSING}

\* A number that may be missing (undefined or null).
NoValue == [has |-> FALSE, v |-> 0]

Value(v) == [has |-> TRUE, v |-> v]

\* JavaScript truthiness of a number that may be missing.
Truthy(x) == x.has /\ x.v # 0

\* The scalar factor codes of the model. scalarCodes maps a code to its
\* factor, 0 standing for `no entry`.
ScalarCodeSet == {0, 3}

\* Object.keys(this.scalarCodes).length
KeyCount(sc) == Cardinality({k \in DOMAIN sc : sc[k] # 0})

\* The factor fetchCodeSets derives from a (lower-cased) description.
ScalarFactor(desc) ==
    IF desc = "thousands" THEN 1000
    ELSE IF desc = "millions" THEN 1000000
    ELSE IF desc = "billions" THEN 1000000000
    ELSE IF desc = "hundreds" THEN 100
    ELSE 1

\* What getCodeSets can answer: nothing usable (the request fails, or the
\* status is not SUCCESS), or a list of scalar factors.
CodeSetReplies ==
    { [ok |-> FALSE, scalar |-> <<>>],
      [ok |-> TRUE, scalar |-> << [scalarFactorCode |-> 0, desc |-> "units"] >>],
      [ok |-> TRUE, scalar |-> << [scalarFactorCode |-> 0, desc |-> "units"],
                                  [scalarFactorCode |-> 3, desc |-> "thousands"] >>] }

\* json.object.scalar.forEach(s => this.scalarCodes[s.scalarFactorCode] = factor)
RECURSIVE CodeSetsApplied(_, _)
CodeSetsApplied(sc, scalar) ==
    IF scalar = <<>> THEN sc
    ELSE CodeSetsApplied(
            [sc EXCEPT ![scalar[1].scalarFactorCode] = ScalarFactor(scalar[1].desc)],
            Tail(scalar))

\* The live values of the model.
LiveValues == {0, 5}

\* What getDataFromCubePidCoordAndLatestNPeriods can answer: nothing usable,
\* or a data point.
DataReplies ==
    {[ok |-> FALSE, value |-> 0, scalarFactorCode |-> 0]}
    \cup {[ok |-> TRUE, value |-> v, scalarFactorCode |-> k] :
                v \in LiveValues, k \in ScalarCodeSet}

\* point.value * (this.scalarCodes[point.scalarFactorCode] || 1)
ScaledValue(sc, reply) ==
    reply.value * (IF sc[reply.scalarFactorCode] # 0
                   THEN sc[reply.scalarFactorCode] ELSE 1)

IdleBaselineCall == [pc |-> "idle", productId |-> P_POPULATION, result |-> NoValue]

\* The constructor: baselineCache = {}, scalarCodes = {0: 1}.
WdsInit ==
    /\ baselineCache = [p \in CatalogIds |-> NoValue]
    /\ scalarCodes = [k \in ScalarCodeSet |-> IF k = 0 THEN 1 ELSE 0]
    /\ baselineCalls = [b \in 1..MaxCalls |-> IdleBaselineCall]

\* fetchLiveBaseline(productId) up to its first await: a truthy cache entry
\* is returned; otherwise fetchCodeSets() is awaited when scalarCodes has
\* its one initial key, or else the data request goes out.
StartFetchLiveBaseline(productId) ==
    IF Truthy(baselineCache[productId])
    THEN [pc |-> "done", productId |-> productId,
          result |-> baselineCache[productId]]
    ELSE IF KeyCount(scalarCodes) = 1
    THEN [pc |-> "codesets", productId |-> productId, result |-> NoValue]
    ELSE [pc |-> "data", productId |-> productId, result |-> NoValue]

CallFetchLiveBaseline(b, productId) ==
    /\ baselineCalls[b].pc = "idle"
    /\ baselineCalls' = [baselineCalls EXCEPT ![b] = StartFetchLiveBaseline(productId)]
    /\ UNCHANGED <<baselineCache, scalarCodes>>

\* The fetchCodeSets() awaited by the call b settles (it never rejects):
\* the factors of a usable answer are recorded and the data request goes out.
SettleCodeSets(b, reply) ==
    /\ baselineCalls[b].pc = "codesets"
    /\ scalarCodes' = IF reply.ok THEN CodeSetsApplied(scalarCodes, reply.scalar)
                      ELSE scalarCodes
    /\ baselineCalls' = [baselineCalls EXCEPT ![b].pc = "data"]
    /\ UNCHANGED baselineCache

\* The data request of the call b ends: a data point is scaled, cached and
\* returned; otherwise the call returns null.
SettleData(b, reply) ==
    /\ baselineCalls[b].pc = "data"
    /\ IF reply.ok
       THEN LET val == Value(ScaledValue(scalarCodes, reply))
            IN  /\ baselineCache' =
                        [baselineCache EXCEPT ![baselineCalls[b].productId] = val]
                /\ baselineCalls' = [baselineCalls EXCEPT
                        ![b].pc = "done", ![b].result = val]
       ELSE /\ baselineCalls' = [baselineCalls EXCEPT
                        ![b].pc = "done", ![b].result = NoValue]
            /\ UNCHANGED baselineCache
    /\ UNCHANGED scalarCodes

\* The caller has the value of the call b.
ReturnBaseline(b) ==
    /\ baselineCalls[b].pc = "done"
    /\ baselineCalls' = [baselineCalls EXCEPT ![b] = IdleBaselineCall]
    /\ UNCHANGED <<baselineCache, scalarCodes>>

-----------------------------------------------------------------------------
(* StatCanService: getMetricsForPoints (part_001), and the fallbacks and
   amplitudes of fetchBaselines and enrichFeature (part_000) *)

\* product.category of the two products
Category(productId) ==
    IF productId = P_HOUSING THEN "Housing" ELSE "Demographics"

Categories == {"Housing", "Labour", "Demographics", "Economy"}

\* The static baseline of a category, in tenths.
\*   part_001: p.category === 'Housing' ? 125.5 : p.category === 'Labour' ? 6.1 : 1000
\*   part_000: Housing 125.5, Labour 6.1, Demographics 5000, otherwise 100
Fallback10(im, category) ==
    IF category = "Housing" THEN 1255
    ELSE IF category = "Labour" THEN 61
    ELSE IF im = "part_001" THEN 10000
    ELSE IF category = "Demographics" THEN 50000
    ELSE 1000

\* Whether the live value is used: `liveVal !== null` in part_001,
\* `if (liveVal)` in part_000.
LiveIsUsed(im, liveVal) ==
    IF im = "part_001" THEN liveVal.has ELSE Truthy(liveVal)

\* baselines[p.id], in tenths
BaselineUsed(im, liveVal, category) ==
    IF LiveIsUsed(im, liveVal) THEN 10 * liveVal.v ELSE Fallback10(im, category)

\* The amplitude, in hundredths: 0.2 in part_001; 0.25 for Housing and 0.18
\* otherwise in part_000.
AmplitudePct(im, category) ==
    IF im = "part_001" THEN 20
    ELSE IF category = "Housing" THEN 25 ELSE 18

\* n1 = Math.sin(point.lat * freq + seed) * Math.cos(point.lng * freq + seed)
\* is a number of [-1, 1] fixed by the point and the product's category; a
\* point carries it, in tenths, for each product.
NoiseTenths == {-10, 0, 9, 10}

\* Math.max(0, baseVal * (1 + n1 * 0.2)) in part_001 and
\* baseVal * (1 + n1 * amplitude) in part_000, times 10000.
\* part_000 reads the baseline as `baselines[product.id] || 100`.
Synthesized(im, b10, n10, category) ==
    LET baseVal10 == IF im = "part_000" /\ b10 = 0 THEN 1000 ELSE b10
        x == baseVal10 * (1000 + AmplitudePct(im, category) * n10)
    IN  IF im = "part_001" /\ x < 0 THEN 0 ELSE x

\* A guard that lets every call compute the metric again.
NeedsMetricAlways(metrics, productId) == TRUE

\* point.metrics[product.id] === undefined
NeedsMetric(metrics, productId) == ~metrics[productId].has

\* products.forEach(product => ...) on one point's metrics
RECURSIVE MetricsFilled(_, _, _, _, _)
MetricsFilled(im, metrics, n1, products, baselines) ==
    IF products = <<>> THEN metrics
    ELSE LET p == products[1]
             m == IF NeedsMetric(metrics, p)
                  THEN [metrics EXCEPT ![p] =
                            Value(Synthesized(im, baselines[p].v10, n1[p], Category(p)))]
                  ELSE metrics
         IN  MetricsFilled(im, m, n1, Tail(products), baselines)

\* points.forEach(point => ...): the metrics, then the display value
PointsFilled(im, ps, products, baselines) ==
    [k \in DOMAIN ps |->
        LET m == MetricsFilled(im, ps[k].metrics, ps[k].n1, products, baselines)
        IN  [ps[k] EXCEPT !.metrics = m,
                          !.value = IF products # <<>> THEN m[products[1]] ELSE @]]

NewPoint(n1) ==
    [n1 |-> n1, metrics |-> [p \in CatalogIds |-> NoValue], value |-> Value(0)]

Unresolved == [set |-> FALSE, live |-> NoValue, v10 |-> 0]

IdleMetricsCall ==
    [pc |-> "idle", products |-> <<>>, baselines |-> [p \in CatalogIds |-> Unresolved]]

MetricsInit ==
    /\ points = <<>>
    /\ metricsCall = IdleMetricsCall

\* The product lists handed to getMetricsForPoints.
ProductLists ==
    { <<>>, <<P_POPULATION>>, <<P_HOUSING>>,
      <<P_POPULATION, P_HOUSING>>, <<P_HOUSING, P_POPULATION>> }

\* getMetricsForPoints(points, products) up to `await Promise.all(...)`:
\* every product's arrow function has called fetchLiveBaseline, which ran to
\* its first await (or returned the cached value).
CallGetMetricsForPoints(products) ==
    /\ metricsCall.pc = "idle"
    /\ \A b \in DOMAIN baselineCalls : baselineCalls[b].pc = "idle"
    /\ metricsCall' = [IdleMetricsCall EXCEPT !.pc = "baselines", !.products = products]
    /\ baselineCalls' = [b \in DOMAIN baselineCalls |->
            IF b <= Len(products) THEN StartFetchLiveBaseline(products[b])
            ELSE baselineCalls[b]]
    /\ UNCHANGED <<baselineCache, scalarCodes, points>>

\* The arrow function of the b-th product after its await: the live value
\* or the static baseline of the category is recorded in `baselines`.
ResolveBaseline(b) ==
    /\ metricsCall.pc = "baselines"
    /\ b <= Len(metricsCall.products)
    /\ ReturnBaseline(b)
    /\ LET liveVal == baselineCalls[b].result
           p == baselineCalls[b].productId
       IN  metricsCall' = [metricsCall EXCEPT !.baselines[p] =
                [set |-> TRUE, live |-> liveVal,
                 v10 |-> BaselineUsed(impl, liveVal, Category(p))]]
    /\ UNCHANGED points

\* Promise.all resolved: the metrics are applied to the points.
SettleMetrics ==
    /\ metricsCall.pc = "baselines"
    /\ \A b \in 1..Len(metricsCall.products) :
            metricsCall.baselines[metricsCall.products[b]].set
    /\ points' = PointsFilled(impl, points, metricsCall.products, metricsCall.baselines)
    /\ metricsCall' = [metricsCall EXCEPT !.pc = "done"]
    /\ UNCHANGED wdsVars

\* The caller's await of getMetricsForPoints ends.
ReturnMetrics ==
    /\ metricsCall.pc = "done"
    /\ metricsCall' = IdleMetricsCall
    /\ UNCHANGED <<wdsVars, points>>

-----------------------------------------------------------------------------
(* getCentroid called on its own *)

\* getCentroid was not called yet.
NotCalled == [tag |-> "none"]

CentroidInit ==
    /\ givenGeometry = NullGeometry
    /\ gotCentroid = NotCalled

\* getCentroid(givenGeometry)
CallGetCentroid ==
    /\ gotCentroid = NotCalled
    /\ gotCentroid' = getCentroid(givenGeometry)
    /\ UNCHANGED givenGeometry

-----------------------------------------------------------------------------
(* isPointInBounds called on its own, in both versions of the service *)

Rational(n, d) == [num |-> n, den |-> d]

BoundsInit ==
    /\ givenPoint = [lat |-> Rational(0, 1), lng |-> Rational(0, 1),
                      bounds |-> [north |-> 0, south |-> 0, east |-> 0, west |-> 0]]
    /\ accepted = [im \in Impls |-> "none"]

\* isPointInBounds(lat, lng, bounds) of the version im
CallIsPointInBounds(im) ==
    /\ accepted[im] = "none"
    /\ accepted' = [accepted EXCEPT ![im] =
            IF isPointInBounds(im, givenPoint.lat, givenPoint.lng, givenPoint.bounds)
            THEN "yes" ELSE "no"]
    /\ UNCHANGED givenPoint

-----------------------------------------------------------------------------
(* App: helpers *)

\* An if-chain whose ranges are closed above.
LodOfClosedAbove(z) ==
    IF z <= 40 THEN "PROVINCE"
    ELSE IF z <= 60 THEN "CMA"
    ELSE IF z <= 80 THEN "CD"
    ELSE IF z <= 100 THEN "CCS"
    ELSE IF z <= 120 THEN "FSA"
    ELSE "DA"

\* The zoom/LOD effect's if-chain, on z = 10 * viewState.zoom.
LodOf(z) ==
    IF z < 40 THEN "PROVINCE"
    ELSE IF z >= 40 /\ z < 60 THEN "CMA"
    ELSE IF z >= 60 /\ z < 80 THEN "CD"
    ELSE IF z >= 80 /\ z < 100 THEN "CCS"
    ELSE IF z >= 100 /\ z < 120 THEN "FSA"
    ELSE "DA"

\* A button that is already offered above zoom 3.
LoadButtonFromThree(z) == z > 30

\* if (z > 4) setShowLoadButton(true) else setShowLoadButton(false)
LoadButtonFor(z) == z > 40

\* INITIAL_VIEW_STATE.zoom = 8.0
INITIAL_ZOOM == 80

\* A feature object, by reference <<tier, document, index>>.
FeatureAt(hp, ref) == hp[ref[1]][ref[2]].features[ref[3]]

\* All features of a parsed document, as references (none when the document
\* has no features member).
FeatureRefs(hp, level, obj) ==
    [k \in 1..Len(hp[level][obj].features) |-> <<level, obj, k>>]

\* A set() that always adds an entry.
MapSetAppend(m, p) == Append(m, p)

\* Map.prototype.set on the entries m (a sequence, in insertion order) for
\* the point p under key p.id: an entry with the key is replaced in place,
\* otherwise the entry is appended.
MapSet(m, p) ==
    IF \E j \in DOMAIN m : m[j].id = p.id
    THEN [j \in DOMAIN m |-> IF m[j].id = p.id THEN p ELSE m[j]]
    ELSE Append(m, p)

\* pointsToEnrich.forEach(p => masterPointsRef.current.set(p.id, p))
RECURSIVE MapSetAll(_, _)
MapSetAll(m, ps) ==
    IF ps = <<>> THEN m ELSE MapSetAll(MapSet(m, ps[1]), Tail(ps))

\* A clear() that removes nothing.
MapKeep(m) == m

\* masterPointsRef.current.clear()
MapClear(m) == <<>>

\* processGeometry(feature, level): the lightweight point (null without a
\* centroid); its latitude and longitude are those of the feature `ref`.
processGeometry(hp, ref, level) ==
    IF getCentroid(FeatureAt(hp, ref).geometry).tag # "ok"
    THEN <<>>
    ELSE << [id |-> FeatureAt(hp, ref).properties.id, ref |-> ref,
             lod |-> level, metrics |-> {}] >>

\* f.properties.id || f.properties.DAUID || f.properties.CFSAUID ||
\* f.properties.CCSUID || f.properties.CDUID
ConsumerId(props) ==
    IF props.id # "" THEN props.id
    ELSE IF props.DAUID # "" THEN props.DAUID
    ELSE IF props.CFSAUID # "" THEN props.CFSAUID
    ELSE IF props.CCSUID # "" THEN props.CCSUID
    ELSE props.CDUID

\* new Set(currentLevelFeatures.map(f => f.properties.id || f.properties.DAUID))
ExistingIds(hp, refs) ==
    { IF FeatureAt(hp, refs[k]).properties.id # ""
      THEN FeatureAt(hp, refs[k]).properties.id
      ELSE FeatureAt(hp, refs[k]).properties.DAUID : k \in DOMAIN refs }

\* chunkFeatures.filter(...) of handleLoadArea: the features kept and the
\* existingIds afterwards.
RECURSIVE FilterUnique(_, _, _, _)
FilterUnique(hp, refs, existing, kept) ==
    IF refs = <<>> THEN [unique |-> kept, existingIds |-> existing]
    ELSE LET id == ConsumerId(FeatureAt(hp, refs[1]).properties)
         IN  IF id = ""
             THEN FilterUnique(hp, Tail(refs), existing, Append(kept, refs[1]))
             ELSE IF id \in existing
             THEN FilterUnique(hp, Tail(refs), existing, kept)
             ELSE FilterUnique(hp, Tail(refs), existing \cup {id},
                               Append(kept, refs[1]))

\* uniqueFeatures mapped through processGeometry, nulls dropped
RECURSIVE ChunkPoints(_, _, _)
ChunkPoints(hp, refs, level) ==
    IF refs = <<>> THEN <<>>
    ELSE processGeometry(hp, refs[1], level) \o ChunkPoints(hp, Tail(refs), level)

\* getMetricsForPoints(points, products), after its baselines resolved, seen
\* from a holder `ps` of point objects: every point object among `refs` gets
\* a metric for each product it has none for. (The values are the subject of
\* the synthesis definitions; here a point's metrics are its keys.)
Enriched(ps, refs, products) ==
    [k \in DOMAIN ps |->
        IF ps[k].ref \in refs
        THEN [ps[k] EXCEPT !.metrics = @ \cup {products[j] : j \in DOMAIN products}]
        ELSE ps[k]]

RefsOf(ps) == {ps[k].ref : k \in DOMAIN ps}

IdsOf(ps) == {ps[k].id : k \in DOMAIN ps}

\* A removeTask that leaves the list as it is.
removeTaskKeep(ts, id) == ts

\* removeTask(id)
removeTask(ts, id) == SelectSeq(ts, LAMBDA t : t # id)

IdleLoad ==
    [pc |-> "idle", targetLevel |-> "PROVINCE",
     bounds |-> [north |-> 0, south |-> 0, east |-> 0, west |-> 0],
     existingIds |-> {}, newFeaturesAccumulator |-> <<>>,
     pointsToEnrich |-> <<>>, products |-> <<>>]

IdleChange ==
    [pc |-> "idle", products |-> <<>>, missingProducts |-> <<>>,
     allPoints |-> <<>>]

\* The call slots of the App: the load's generator and the init effect's
\* fetchCanadaGeoJSON.
LoadCall == 1
InitCall == 2

\* A continuation of the running JavaScript job is ready (a microtask): it
\* runs before any timer, network completion, effect or user event.
ConsumerReady ==
    \/ load.pc = "streaming" /\ calls[LoadCall].pc \in {"yielded", "done", "threw"}
    \/ initPc = "geo" /\ calls[InitCall].pc \in {"done", "threw"}

NoMicrotask == Quiescent /\ ~ConsumerReady

\* A user event is handled on the last render, after the effects it scheduled.
CanHandleEvent == NoMicrotask /\ ~effectPending /\ initPc # "mount"

-----------------------------------------------------------------------------
(* App: effects *)

\* The init effect up to its first await: addTask('init'), fetchCodeSets().
InitEffect ==
    /\ Quiescent
    /\ initPc = "mount"
    /\ initPc' = "codesets"
    /\ tasks' = Append(tasks, "init")
    /\ UNCHANGED <<svcVars, zoom, lod, showLoadButton, effectPending,
                   layerCache, masterPoints, detailedPoints, activeProducts,
                   loadedProductIds, load, changes>>

\* fetchCodeSets() settled (it never rejects): fetchCanadaGeoJSON() is called.
InitCodeSetsSettle ==
    /\ NoMicrotask
    /\ initPc = "codesets"
    /\ initPc' = "geo"
    /\ CallFetchGeoJSON(InitCall, "PROVINCE")
    /\ UNCHANGED <<zoom, lod, showLoadButton, effectPending, tasks,
                   layerCache, masterPoints, detailedPoints, activeProducts,
                   loadedProductIds, load, changes>>

\* The init effect after fetchCanadaGeoJSON() settled: the base layer and the
\* initial product are recorded, or the catch block runs; removeTask('init').
InitGeoDone ==
    /\ Quiescent
    /\ initPc = "geo"
    /\ calls[InitCall].pc \in {"done", "threw"}
    /\ initPc' = "done"
    /\ tasks' = removeTask(tasks, "init")
    /\ IF calls[InitCall].pc = "done"
       THEN /\ layerCache' = [layerCache EXCEPT
                    !["PROVINCE"] = FeatureRefs(heap, "PROVINCE", calls[InitCall].result)]
            /\ loadedProductIds' = loadedProductIds \cup {P_POPULATION}
       ELSE UNCHANGED <<layerCache, loadedProductIds>>
    /\ calls' = [calls EXCEPT ![InitCall] = IdleCall]
    /\ UNCHANGED <<impl, chunkSize, source, heap, cache, genCount,
                   zoom, lod, showLoadButton, effectPending,
                   masterPoints, detailedPoints, activeProducts, load, changes>>

\* onViewStateChange: the view state gets another zoom; the zoom effect is
\* scheduled.
SetViewState(z) ==
    /\ NoMicrotask
    /\ initPc # "mount"
    /\ z # zoom
    /\ zoom' = z
    /\ effectPending' = TRUE
    /\ UNCHANGED <<svcVars, lod, showLoadButton, initPc, tasks,
                   layerCache, masterPoints, detailedPoints, activeProducts,
                   loadedProductIds, load, changes>>

\* The zoom effect. Setting lod schedules the effect once more.
ZoomEffect ==
    /\ NoMicrotask
    /\ initPc # "mount"
    /\ effectPending
    /\ LET nextLod == LodOf(zoom)
       IN  /\ IF nextLod # lod
              THEN /\ lod' = nextLod
                   /\ masterPoints' = MapClear(masterPoints)
                   /\ detailedPoints' = <<>>
              ELSE UNCHANGED <<lod, masterPoints, detailedPoints>>
           /\ effectPending' = (nextLod # lod)
    /\ showLoadButton' = LoadButtonFor(zoom)
    /\ UNCHANGED <<svcVars, zoom, initPc, tasks, layerCache,
                   activeProducts, loadedProductIds, load, changes>>

-----------------------------------------------------------------------------
(* App: handleLoadArea *)

\* The load button is rendered when showLoadButton && tasks.length === 0.
\* Its click runs handleLoadArea up to the generator's first suspension.
LoadClick(b) ==
    /\ CanHandleEvent
    /\ showLoadButton
    /\ tasks = <<>>
    /\ load.pc = "idle"
    /\ tasks' = Append(tasks, "load")
    /\ showLoadButton' = FALSE
    /\ load' = [IdleLoad EXCEPT
            !.pc = "streaming", !.targetLevel = lod, !.bounds = b,
            !.existingIds = ExistingIds(heap, layerCache[lod]),
            !.products = activeProducts]
    /\ CallStreamShapes(LoadCall, lod, b)
    /\ UNCHANGED <<zoom, lod, effectPending, initPc, layerCache,
                   masterPoints, detailedPoints, activeProducts,
                   loadedProductIds, changes>>

\* The body of `for await (const chunkFeatures of stream)` for one chunk,
\* and the next() that follows it.
LoadConsume ==
    /\ load.pc = "streaming"
    /\ StreamNext(LoadCall)
    /\ LET g == calls[LoadCall]
           chunkFeatures == [k \in DOMAIN g.value |-> <<g.level, g.data, g.value[k]>>]
           r == FilterUnique(heap, chunkFeatures, load.existingIds, <<>>)
       IN  load' = [load EXCEPT
                !.existingIds = r.existingIds,
                !.newFeaturesAccumulator = @ \o r.unique,
                !.pointsToEnrich = @ \o ChunkPoints(heap, r.unique, load.targetLevel)]
    /\ UNCHANGED <<zoom, lod, showLoadButton, effectPending, initPc,
                   tasks, layerCache, masterPoints, detailedPoints,
                   activeProducts, loadedProductIds, changes>>

\* The stream ended: the geometry and the points are stored. With products
\* the handler then awaits getMetricsForPoints; with none (nothing to fetch)
\* it goes on to setDetailedPoints and the finally block. Without new
\* features only the finally block runs.
LoadStore ==
    /\ Quiescent
    /\ load.pc = "streaming"
    /\ calls[LoadCall].pc = "done"
    /\ calls' = [calls EXCEPT ![LoadCall] = IdleCall]
    /\ IF load.newFeaturesAccumulator # <<>>
       THEN LET mp == MapSetAll(masterPoints, load.pointsToEnrich)
            IN  /\ layerCache' = [layerCache EXCEPT ![load.targetLevel] =
                            @ \o load.newFeaturesAccumulator]
                /\ masterPoints' = mp
                /\ IF load.products # <<>>
                   THEN /\ load' = [load EXCEPT !.pc = "metrics"]
                        /\ UNCHANGED <<detailedPoints, tasks>>
                   ELSE /\ detailedPoints' = mp
                        /\ tasks' = removeTask(tasks, "load")
                        /\ load' = IdleLoad
       ELSE /\ tasks' = removeTask(tasks, "load")
            /\ load' = IdleLoad
            /\ UNCHANGED <<layerCache, masterPoints, detailedPoints>>
    /\ UNCHANGED <<impl, chunkSize, source, heap, cache, genCount,
                   zoom, lod, showLoadButton, effectPending,
                   initPc, activeProducts, loadedProductIds, changes>>

\* The generator threw: the catch block logs, the finally block runs.
LoadCatch ==
    /\ Quiescent
    /\ load.pc = "streaming"
    /\ calls[LoadCall].pc = "threw"
    /\ calls' = [calls EXCEPT ![LoadCall] = IdleCall]
    /\ tasks' = removeTask(tasks, "load")
    /\ load' = IdleLoad
    /\ UNCHANGED <<impl, chunkSize, source, heap, cache, genCount,
                   zoom, lod, showLoadButton,
                   effectPending, initPc, layerCache, masterPoints,
                   detailedPoints, activeProducts, loadedProductIds, changes>>

\* getMetricsForPoints(pointsToEnrich, activeProducts) resolved: the point
\* objects have their metrics wherever they are held, the view gets the
\* store's values and the finally block runs.
LoadMetricsSettle ==
    /\ NoMicrotask
    /\ load.pc = "metrics"
    /\ LET refs == RefsOf(load.pointsToEnrich)
           mp == Enriched(masterPoints, refs, load.products)
       IN  /\ masterPoints' = mp
           /\ detailedPoints' = mp
           /\ changes' = [k \in DOMAIN changes |->
                    [changes[k] EXCEPT
                        !.allPoints = Enriched(@, refs, load.products)]]
    /\ tasks' = removeTask(tasks, "load")
    /\ load' = IdleLoad
    /\ UNCHANGED <<svcVars, zoom, lod, showLoadButton,
                   effectPending, initPc, layerCache, activeProducts,
                   loadedProductIds>>

-----------------------------------------------------------------------------
(* App: handleProductsChange *)

\* toggleProduct of the discovery panel: the product leaves the selection
\* or joins it.
Toggled(products, p) ==
    IF \E k \in DOMAIN products : products[k] = p
    THEN SelectSeq(products, LAMBDA q : q # p)
    ELSE Append(products, p)

TaskOfChange(k) == "data-" \o ToString(k)

\* handleProductsChange(products), called by the panel (toggle or Clear All)
\* in the k-th of the handler's concurrent activations, up to its await or,
\* with nothing to await, to its end.
ProductsChange(k, products) ==
    /\ CanHandleEvent
    /\ changes[k].pc = "idle"
    /\ \A j \in 1..(k - 1) : changes[j].pc # "idle"
    /\ LET missingProducts ==
               SelectSeq(products, LAMBDA p : p \notin loadedProductIds)
       IN  IF missingProducts # <<>> /\ masterPoints # <<>>
           THEN /\ tasks' = Append(tasks, TaskOfChange(k))
                /\ changes' = [changes EXCEPT ![k] =
                        [pc |-> "metrics", products |-> products,
                         missingProducts |-> missingProducts,
                         allPoints |-> masterPoints]]
                /\ UNCHANGED <<loadedProductIds, activeProducts, detailedPoints>>
           ELSE /\ loadedProductIds' = loadedProductIds
                        \cup {missingProducts[j] : j \in DOMAIN missingProducts}
                /\ activeProducts' = products
                /\ detailedPoints' = masterPoints
                /\ UNCHANGED <<tasks, changes>>
    /\ UNCHANGED <<svcVars, zoom, lod, showLoadButton, effectPending,
                   initPc, layerCache, masterPoints, load>>

\* getMetricsForPoints(allPoints, missingProducts) resolved in the k-th
\* activation: the rest of handleProductsChange runs.
ProductsMetricsSettle(k) ==
    /\ NoMicrotask
    /\ changes[k].pc = "metrics"
    /\ LET c == changes[k]
           refs == RefsOf(c.allPoints)
           mp == Enriched(masterPoints, refs, c.missingProducts)
       IN  /\ masterPoints' = mp
           /\ detailedPoints' = mp
           /\ changes' = [j \in DOMAIN changes |->
                    IF j = k THEN IdleChange
                    ELSE [changes[j] EXCEPT
                            !.allPoints = Enriched(@, refs, c.missingProducts)]]
           /\ load' = [load EXCEPT
                    !.pointsToEnrich = Enriched(@, refs, c.missingProducts)]
           /\ loadedProductIds' = loadedProductIds
                    \cup {c.missingProducts[j] : j \in DOMAIN c.missingProducts}
           /\ activeProducts' = c.products
           /\ tasks' = removeTask(tasks, TaskOfChange(k))
    /\ UNCHANGED <<svcVars, zoom, lod, showLoadButton, effectPending,
                   initPc, layerCache>>

\* No load ended yet.
NoLoad == [level |-> "none", bounds |-> IdleLoad.bounds, data |-> 0, ok |-> FALSE]

-----------------------------------------------------------------------------
(* The App before its effects ran *)

AppInit ==
    /\ zoom = INITIAL_ZOOM
    /\ lod = "PROVINCE"
    /\ showLoadButton = FALSE
    /\ effectPending = TRUE
    /\ initPc = "mount"
    /\ tasks = <<>>
    /\ layerCache = [t \in LODLevel |-> <<>>]
    /\ masterPoints = <<>>
    /\ detailedPoints = <<>>
    /\ activeProducts = <<P_POPULATION>>
    /\ loadedProductIds = {}
    /\ load = IdleLoad
    /\ changes = [k \in 1..MaxChanges |-> IdleChange]

HistInit ==
    /\ hTransition = [cleared |-> FALSE]
    /\ hMerge = [replaced |-> FALSE]
    /\ hLoads = [last |-> NoLoad, repeated |-> FALSE]
    /\ hFetches = [t \in LODLevel |-> 0]
    /\ hBaseline = [p \in CatalogIds |-> NoValue]
    /\ hResolution = [p \in CatalogIds |-> "none"]
    /\ hCodeSets = [sent |-> 0, outcome |-> "none"]

-----------------------------------------------------------------------------
(* History kept for the properties (not program state). A specification
   conjoins the observers it needs to the steps of the program. *)

\* hTransition: whether the last tier transition found points in the store.
TransitionObserved ==
    hTransition' = IF lod' # lod THEN [cleared |-> masterPoints # <<>>]
                   ELSE hTransition

\* The step stores the points of a load (App.tsx line 169).
Merges ==
    /\ load.pc = "streaming"
    /\ load'.pc # "streaming"
    /\ calls[LoadCall].pc = "done"
    /\ load.newFeaturesAccumulator # <<>>

\* hMerge: whether the last merge found one of its ids in the store.
MergeObserved ==
    hMerge' = IF Merges
              THEN [replaced |-> \E k \in DOMAIN load.pointsToEnrich :
                                    load.pointsToEnrich[k].id \in IdsOf(masterPoints)]
              ELSE hMerge

\* The load l repeats the load recorded as h: same tier, same bounds, and the
\* service still holds the document h streamed to its end.
Repeats(l, h) ==
    /\ l.pc = "streaming"
    /\ h.ok
    /\ h.data # 0
    /\ h.level = l.targetLevel
    /\ h.bounds = l.bounds
    /\ cache[GEOJSON_SOURCES(l.targetLevel)] = h.data

\* The step ends the stream of the load (normally or by an exception).
StreamEnds == load.pc = "streaming" /\ load'.pc # "streaming"

\* hLoads: the last load whose stream ended (tier, bounds, document, ended
\* without an exception) and whether it repeated the one before it after
\* streaming at least one batch.
LoadObserved ==
    hLoads' = IF StreamEnds
              THEN [last |-> [level |-> load.targetLevel, bounds |-> load.bounds,
                              data |-> calls[LoadCall].data,
                              ok |-> calls[LoadCall].pc = "done"],
                    repeated |-> /\ Repeats(load, hLoads.last)
                                 /\ calls[LoadCall].out # <<>>]
              ELSE hLoads

\* hFetches: a call that becomes suspended on fetch() has sent a request.
FetchObserved ==
    hFetches' = [t \in LODLevel |-> hFetches[t] + Cardinality(
                    {c \in DOMAIN calls : /\ calls[c].pc # "fetch"
                                          /\ calls'[c].pc = "fetch"
                                          /\ calls'[c].level = t})]

\* The service alone: the App is not mounted.
AppIdle ==
    /\ FetchObserved
    /\ UNCHANGED <<wdsVars, appVars, metricsVars, centroidVars, boundsVars>>
    /\ UNCHANGED <<hTransition, hMerge, hLoads, hBaseline, hResolution, hCodeSets>>

-----------------------------------------------------------------------------
(* Specification SpecStream: one streamShapes call, consumed to its end, over
   every small collection and over the long collection *)

StreamTier == "CD"

InitStream ==
    /\ impl \in Impls
    /\ \/ /\ chunkSize \in 1..MaxChunk
          /\ \E col \in Collections : source = [NoSource EXCEPT ![StreamTier] = col]
       \/ /\ chunkSize \in {CHUNK_SIZE_000, CHUNK_SIZE_001}
          /\ source = [NoSource EXCEPT ![StreamTier] = LongCollection]
    /\ heap = [t \in LODLevel |-> <<>>]
    /\ cache = [t \in LODLevel |-> 0]
    /\ genCount = 0
    /\ calls = [c \in 1..MaxCalls |-> IdleCall]
    /\ WdsInit
    /\ AppInit
    /\ MetricsInit
    /\ CentroidInit
    /\ BoundsInit
    /\ HistInit

NextStream ==
    \/ \E b \in ViewBounds : CallStreamShapes(1, StreamTier, b) /\ AppIdle
    \/ \E o \in Outcomes : SettleStreamFetch(1, o) /\ AppIdle
    \/ StreamStep(1) /\ AppIdle
    \/ StreamNext(1) /\ AppIdle
    \/ StreamTimer(1) /\ AppIdle

SpecStream == InitStream /\ [][NextStream]_vars

-----------------------------------------------------------------------------
(* Specification SpecGeo: up to MaxCalls concurrent fetchGeoJSON and
   streamShapes calls on two tiers *)

GeoTiers == {"CMA", "CD"}

GeoSource ==
    [NoSource EXCEPT
        !["CMA"] = << Feature(InPolygon, Props("", "", "", "", "", "cma1", "")),
                      Feature(InPolygon, NoProps) >>,
        !["CD"] = << Feature(InPolygon, Props("", "", "", "", "cd1", "", "")) >>]

InitGeo ==
    /\ impl \in Impls
    /\ chunkSize = 1
    /\ source = GeoSource
    /\ heap = [t \in LODLevel |-> <<>>]
    /\ cache = [t \in LODLevel |-> 0]
    /\ genCount = 0
    /\ calls = [c \in 1..MaxCalls |-> IdleCall]
    /\ WdsInit
    /\ AppInit
    /\ MetricsInit
    /\ CentroidInit
    /\ BoundsInit
    /\ HistInit

\* The slot a new call takes: the first one not used yet.
NextSlot(c) == calls[c].pc = "idle" /\ \A d \in 1..(c - 1) : calls[d].pc # "idle"

NextGeo ==
    \/ \E c \in 1..MaxCalls, t \in GeoTiers :
            NextSlot(c) /\ CallFetchGeoJSON(c, t) /\ AppIdle
    \/ \E c \in 1..MaxCalls, o \in Outcomes : SettleFetchGeoJSON(c, o) /\ AppIdle
    \/ \E c \in 1..MaxCalls, t \in GeoTiers :
            NextSlot(c) /\ CallStreamShapes(c, t, WideBounds) /\ AppIdle
    \/ \E c \in 1..MaxCalls, o \in Outcomes : SettleStreamFetch(c, o) /\ AppIdle
    \/ \E c \in 1..MaxCalls : StreamStep(c) /\ AppIdle
    \/ \E c \in 1..MaxCalls : StreamNext(c) /\ AppIdle
    \/ \E c \in 1..MaxCalls : StreamTimer(c) /\ AppIdle

SpecGeo == InitGeo /\ [][NextGeo]_vars

-----------------------------------------------------------------------------
(* Properties of streamShapes and fetchGeoJSON (SpecStream, SpecGeo) *)

RECURSIVE Concat(_)
Concat(ss) == IF ss = <<>> THEN <<>> ELSE ss[1] \o Concat(Tail(ss))

\* The features of the document the generator g streams, by index.
StreamedFeatures(g) == heap[g.level][g.data].features

\* The indices, in order, of the features with a centroid inside the
\* buffered bounds of g.
InBoundsFeatures(g) ==
    SelectSeq([i \in 1..Len(StreamedFeatures(g)) |-> i],
              LAMBDA i : /\ getCentroid(StreamedFeatures(g)[i].geometry).tag = "ok"
                         /\ Qualifies(impl, StreamedFeatures(g)[i], g.bounds))

\* Every batch but the last is full, the last holds 1..size features.
WellSizedBatches(out, size) ==
    \A k \in DOMAIN out :
        /\ Len(out[k]) >= 1
        /\ Len(out[k]) <= size
        /\ k < Len(out) => Len(out[k]) = size

\* The stream of g has ended, with its data fetched or found in the cache.
StreamEnded(g) ==
    g.kind = "streamShapes" /\ g.pc \in {"done", "threw"} /\ g.data # 0

\* C1: a stream consumed to its end has emitted exactly the features with a
\* centroid inside the buffered bounds, in the collection's order, none
\* repeated or dropped, in batches that are all full except the last, which
\* holds between 1 and CHUNK_SIZE features.
BatchesAreTheInBoundsFeatures ==
    \A c \in DOMAIN calls :
        StreamEnded(calls[c]) =>
            /\ Concat(calls[c].out) = InBoundsFeatures(calls[c])
            /\ WellSizedBatches(calls[c].out, chunkSize)

\* C2: once a tier's geometry is cached, no step sends another request for
\* the tier and the cached collection stays the same object.
CachedTierIsNeverRefetched ==
    [][\A t \in LODLevel :
            cache[t] # 0 => cache'[t] = cache[t] /\ hFetches'[t] = hFetches[t]]_vars

\* The calls suspended on a request for tier t.
InFlight(t) == {c \in DOMAIN calls : calls[c].pc = "fetch" /\ calls[c].level = t}

\* C3: at most one request per tier is outstanding at any time.
OneRequestInFlightPerTier ==
    \A t \in LODLevel : Cardinality(InFlight(t)) <= 1

\* fetch() or res.json() rejected.
Rejected(g) == g.net \in {"neterr", "badjson"}

\* C4: a call whose fetch failed has not thrown: fetchGeoJSON returned an
\* empty FeatureCollection and streamShapes ended normally without a batch.
FailedFetchIsNotPropagated ==
    \A c \in DOMAIN calls :
        Rejected(calls[c]) =>
            /\ calls[c].pc = "done"
            /\ calls[c].kind = "fetchGeoJSON" =>
                    heap[calls[c].level][calls[c].result] =
                        EmptyCollection(calls[c].level)
            /\ calls[c].kind = "streamShapes" => calls[c].out = <<>>

-----------------------------------------------------------------------------
(* Specification SpecApp: the App over the service of part_001 (the one it
   imports), with a small remote data set *)

\* Zoom levels (times ten) the user moves between: PROVINCE, CD, CCS.
AppZooms == {39, 61, INITIAL_ZOOM}

\* What the endpoints serve, in two variants. In the first, the first CCS
\* feature has no CCSUID, so that its identifier resolves to its CDUID, which
\* is the identifier of the CD feature, and the second has no identifying
\* property at all. In the second, the CD document holds a MultiPolygon
\* without polygons.
AppSource ==
    [NoSource EXCEPT
        !["PROVINCE"] = << Feature(InPolygon, Props("", "", "", "", "", "", "pr1")) >>,
        !["CD"] = << Feature(InPolygon, Props("", "", "", "", "cd1", "", "")) >>,
        !["CCS"] = << Feature(InMultiPolygon, Props("", "", "", "", "cd1", "", "")),
                      Feature(EdgePolygon, NoProps) >>]

AppSourceBroken ==
    [NoSource EXCEPT
        !["PROVINCE"] = << Feature(InPolygon, Props("", "", "", "", "", "", "pr1")) >>,
        !["CD"] = << Feature(EmptyMultiPolygon, Props("", "", "", "", "cd1", "", "")) >>,
        !["CCS"] = << Feature(InPolygon, Props("", "", "", "ccs1", "cd1", "", "")) >>]

AppSources == {AppSource, AppSourceBroken}

\* The products of the catalog the user toggles in the panel.
Products == {P_HOUSING}

InitApp ==
    /\ impl = "part_001"
    /\ chunkSize = 1
    /\ source \in AppSources
    /\ heap = [t \in LODLevel |-> <<>>]
    /\ cache = [t \in LODLevel |-> 0]
    /\ genCount = 0
    /\ calls = [c \in 1..MaxCalls |-> IdleCall]
    /\ WdsInit
    /\ AppInit
    /\ MetricsInit
    /\ CentroidInit
    /\ BoundsInit
    /\ HistInit

\* The service's own steps leave the App's state alone.
ServiceStep(A) == A /\ ~ConsumerReady /\ UNCHANGED appVars

\* A step of the App with the history the properties of this specification
\* read.
Observed(A) ==
    /\ A /\ TransitionObserved /\ MergeObserved
    /\ UNCHANGED <<wdsVars, metricsVars, centroidVars, boundsVars>>
    /\ UNCHANGED <<hLoads, hFetches, hBaseline, hResolution, hCodeSets>>

NextApp ==
    \/ Observed(InitEffect)
    \/ Observed(InitCodeSetsSettle)
    \/ \E o \in Outcomes : Observed(ServiceStep(SettleFetchGeoJSON(InitCall, o)))
    \/ Observed(InitGeoDone)
    \/ \E z \in AppZooms : Observed(SetViewState(z))
    \/ Observed(ZoomEffect)
    \/ Observed(LoadClick(WideBounds))
    \/ \E o \in Outcomes : Observed(ServiceStep(SettleStreamFetch(LoadCall, o)))
    \/ Observed(StreamStep(LoadCall) /\ UNCHANGED appVars)
    \/ Observed(ServiceStep(StreamTimer(LoadCall)))
    \/ Observed(LoadConsume)
    \/ Observed(LoadStore)
    \/ Observed(LoadCatch)
    \/ Observed(LoadMetricsSettle)
    \/ \E k \in 1..MaxChanges, p \in Products :
            Observed(ProductsChange(k, Toggled(activeProducts, p)))
    \/ \E k \in 1..MaxChanges :
            activeProducts # <<>> /\ Observed(ProductsChange(k, <<>>))
    \/ \E k \in 1..MaxChanges : Observed(ProductsMetricsSettle(k))

SpecApp == InitApp /\ [][NextApp]_vars

-----------------------------------------------------------------------------
(* Properties of the Master Point Store (SpecApp) *)

\* C5: every point in the Master Point Store has the active tier.
StoreHoldsOnlyTheActiveTier ==
    \A k \in DOMAIN masterPoints : masterPoints[k].lod = lod

\* C6: a step that changes the active tier leaves the Master Point Store and
\* the displayed points empty and changes neither the service's geometry
\* cache (nor the documents it holds) nor the layer cache.
TransitionClearsPointsOnly ==
    [][lod' # lod =>
            /\ masterPoints' = <<>>
            /\ detailedPoints' = <<>>
            /\ cache' = cache
            /\ heap' = heap
            /\ layerCache' = layerCache]_vars

\* A transition has just removed points from the store, with geometry held
\* in the service's cache and in the layer cache.
TransitionClearedPoints ==
    /\ hTransition.cleared
    /\ effectPending
    /\ lod = LodOf(zoom)
    /\ masterPoints = <<>>
    /\ \E t \in LODLevel : cache[t] # 0 /\ layerCache[t] # <<>>

\* No two entries of m have the same id.
UniqueIds(m) == \A j, k \in DOMAIN m : m[j].id = m[k].id => j = k

\* C8: the store never holds two points with one id, and a merge leaves as
\* many entries as there are distinct ids among the entries it found and
\* the points it merged (a point with an id already present replaces the
\* entry).
StoreHoldsOnePointPerId ==
    [][/\ UniqueIds(masterPoints')
       /\ Merges => Len(masterPoints') =
                Cardinality(IdsOf(masterPoints) \cup IdsOf(load.pointsToEnrich))]_vars

\* A merge has replaced an entry: it found the id of one of its points in
\* the store, which now holds that point.
MergeReplacedAnEntry ==
    /\ hMerge.replaced
    /\ load.pc = "metrics"
    /\ \E k \in DOMAIN load.pointsToEnrich, j \in DOMAIN masterPoints :
            /\ masterPoints[j].id = load.pointsToEnrich[k].id
            /\ masterPoints[j].ref = load.pointsToEnrich[k].ref
    /\ Len(masterPoints) > Len(load.pointsToEnrich)

-----------------------------------------------------------------------------
(* Specification SpecReload: area loads over both viewports, with the
   history of the last load *)

Reloaded(A) ==
    /\ A /\ LoadObserved
    /\ UNCHANGED <<wdsVars, metricsVars, centroidVars, boundsVars>>
    /\ UNCHANGED <<hTransition, hMerge, hFetches, hBaseline, hResolution, hCodeSets>>

NextReload ==
    \/ Reloaded(InitEffect)
    \/ Reloaded(InitCodeSetsSettle)
    \/ \E o \in Outcomes : Reloaded(ServiceStep(SettleFetchGeoJSON(InitCall, o)))
    \/ Reloaded(InitGeoDone)
    \/ \E z \in AppZooms : Reloaded(SetViewState(z))
    \/ Reloaded(ZoomEffect)
    \/ \E b \in ViewBounds : Reloaded(LoadClick(b))
    \/ \E o \in Outcomes : Reloaded(ServiceStep(SettleStreamFetch(LoadCall, o)))
    \/ Reloaded(StreamStep(LoadCall) /\ UNCHANGED appVars)
    \/ Reloaded(ServiceStep(StreamTimer(LoadCall)))
    \/ Reloaded(LoadConsume)
    \/ Reloaded(LoadStore)
    \/ Reloaded(LoadCatch)
    \/ Reloaded(LoadMetricsSettle)

SpecReload == InitApp /\ [][NextReload]_vars

\* The ids of the features held for tier t in the layer cache lc.
LayerIdsIn(hp, lc, t) ==
    {FeatureAt(hp, lc[t][k]).properties.id : k \in DOMAIN lc[t]}

LayerIds(t) == LayerIdsIn(heap, layerCache, t)

\* C9: while a load runs that repeats the last one (same tier, same bounds,
\* same cached collection), no step changes the set of feature ids held for
\* the tier or adds an id to the Master Point Store.
RepeatedLoadAddsNoId ==
    [][Repeats(load, hLoads.last) =>
            /\ LayerIdsIn(heap', layerCache', load.targetLevel) =
                    LayerIds(load.targetLevel)
            /\ IdsOf(masterPoints') \subseteq IdsOf(masterPoints)]_vars

\* A load that repeated the one before it has streamed batches to its end,
\* over a tier that holds a feature with a generated id.
RepeatedLoadEnded ==
    /\ hLoads.repeated
    /\ hLoads.last.ok
    /\ GenId(1) \in LayerIds(hLoads.last.level)

-----------------------------------------------------------------------------
(* Specification SpecLod: the zoom effect over every zoom level (in tenths)
   from 0 to MaxZoom10 *)

\* None of the histories is read here.
Plain(A) == A /\ UNCHANGED <<wdsVars, metricsVars, centroidVars, boundsVars, histVars>>

NextLod ==
    \/ Plain(InitEffect)
    \/ \E z \in 0..MaxZoom10 : Plain(SetViewState(z))
    \/ Plain(ZoomEffect)

SpecLod == InitApp /\ [][NextLod]_vars

\* const HIERARCHY_ORDER = ['PROVINCE', 'CMA', 'CD', 'CCS', 'FSA', 'DA']
HIERARCHY_ORDER == <<"PROVINCE", "CMA", "CD", "CCS", "FSA", "DA">>

\* HIERARCHY_ORDER.indexOf(t)
Rank(t) == CHOOSE k \in DOMAIN HIERARCHY_ORDER : HIERARCHY_ORDER[k] = t

\* The zoom range stated for tier t (z in tenths).
InRangeOf(t, z) ==
    \/ t = "PROVINCE" /\ z < 40
    \/ t = "CMA" /\ 40 <= z /\ z < 60
    \/ t = "CD" /\ 60 <= z /\ z < 80
    \/ t = "CCS" /\ 80 <= z /\ z < 100
    \/ t = "FSA" /\ 100 <= z /\ z < 120
    \/ t = "DA" /\ z >= 120

\* The zoom effect has run for the current zoom.
EffectsSettled == ~effectPending /\ initPc # "mount"

\* C7: once the effect has run, the active tier is the one tier whose stated
\* range holds the zoom, and no smaller zoom selects a finer tier.
TierIsTheStepFunctionOfZoom ==
    EffectsSettled =>
        /\ \A t \in LODLevel : (lod = t) <=> InRangeOf(t, zoom)
        /\ \A z \in 0..zoom : Rank(LodOf(z)) <= Rank(lod)

\* The effect has selected CD for zoom 6.0, the lower end of a range.
TierSelectedAtThreshold == EffectsSettled /\ zoom = 60 /\ lod = "CD"

-----------------------------------------------------------------------------
(* Specification SpecBaseline: up to MaxCalls concurrent fetchLiveBaseline
   calls *)

\* hBaseline: the live value of the call that has just succeeded.
BaselineObserved ==
    hBaseline' = [p \in CatalogIds |->
        IF \E b \in DOMAIN baselineCalls :
                /\ baselineCalls[b].pc = "data"
                /\ baselineCalls'[b].pc = "done"
                /\ baselineCalls'[b].result.has
                /\ baselineCalls[b].productId = p
        THEN baselineCache'[p]
        ELSE hBaseline[p]]

Wds(A) ==
    /\ A /\ BaselineObserved
    /\ UNCHANGED <<svcVars, appVars, metricsVars, centroidVars, boundsVars>>
    /\ UNCHANGED <<hTransition, hMerge, hLoads, hFetches, hResolution, hCodeSets>>

InitBaseline ==
    /\ impl = "part_001"
    /\ chunkSize = CHUNK_SIZE_001
    /\ source = NoSource
    /\ heap = [t \in LODLevel |-> <<>>]
    /\ cache = [t \in LODLevel |-> 0]
    /\ genCount = 0
    /\ calls = [c \in 1..MaxCalls |-> IdleCall]
    /\ WdsInit
    /\ AppInit
    /\ MetricsInit
    /\ CentroidInit
    /\ BoundsInit
    /\ HistInit

NextBaseline ==
    \/ \E b \in 1..MaxCalls, p \in CatalogIds : Wds(CallFetchLiveBaseline(b, p))
    \/ \E b \in 1..MaxCalls, r \in CodeSetReplies : Wds(SettleCodeSets(b, r))
    \/ \E b \in 1..MaxCalls, r \in DataReplies : Wds(SettleData(b, r))
    \/ \E b \in 1..MaxCalls : Wds(ReturnBaseline(b))

SpecBaseline == InitBaseline /\ [][NextBaseline]_vars

\* The step starts a fetchLiveBaseline call in slot b.
Starts(b) == baselineCalls[b].pc = "idle" /\ baselineCalls'[b].pc # "idle"

\* C10: once a call for a product has returned a live value, every call
\* started for the product returns at once, with that value and without a
\* request.
LiveBaselineIsFetchedOnce ==
    [][\A b \in DOMAIN baselineCalls :
            Starts(b) /\ hBaseline[baselineCalls'[b].productId].has =>
                /\ baselineCalls'[b].pc = "done"
                /\ baselineCalls'[b].result =
                        hBaseline[baselineCalls'[b].productId]]_vars

-----------------------------------------------------------------------------
(* Specification SpecMetrics: getMetricsForPoints of part_001, called again
   and again on one point with every product list, over every answer of
   the WDS endpoints *)

\* hResolution: how the baseline resolution that has just ended for a
\* product ended ("live": fetchLiveBaseline returned a value, "failed": null).
ResolutionObserved ==
    hResolution' = [p \in CatalogIds |->
        IF metricsCall'.baselines[p].set /\ ~metricsCall.baselines[p].set
        THEN IF metricsCall'.baselines[p].live.has THEN "live" ELSE "failed"
        ELSE hResolution[p]]

Metered(A) ==
    /\ A /\ ResolutionObserved
    /\ UNCHANGED <<svcVars, appVars, centroidVars, boundsVars>>
    /\ UNCHANGED <<hTransition, hMerge, hLoads, hFetches, hBaseline, hCodeSets>>

InitMetrics ==
    /\ impl = "part_001"
    /\ chunkSize = CHUNK_SIZE_001
    /\ source = NoSource
    /\ heap = [t \in LODLevel |-> <<>>]
    /\ cache = [t \in LODLevel |-> 0]
    /\ genCount = 0
    /\ calls = [c \in 1..MaxCalls |-> IdleCall]
    /\ WdsInit
    /\ AppInit
    /\ \E n1 \in [CatalogIds -> NoiseTenths] : points = << NewPoint(n1) >>
    /\ metricsCall = IdleMetricsCall
    /\ CentroidInit
    /\ BoundsInit
    /\ HistInit

NextMetrics ==
    \/ \E products \in ProductLists : Metered(CallGetMetricsForPoints(products))
    \/ \E b \in 1..MaxCalls, r \in CodeSetReplies :
            Metered(SettleCodeSets(b, r) /\ UNCHANGED metricsVars)
    \/ \E b \in 1..MaxCalls, r \in DataReplies :
            Metered(SettleData(b, r) /\ UNCHANGED metricsVars)
    \/ \E b \in 1..MaxCalls : Metered(ResolveBaseline(b))
    \/ Metered(SettleMetrics)
    \/ Metered(ReturnMetrics)

SpecMetrics == InitMetrics /\ [][NextMetrics]_vars

\* The resolution of the call in progress for product p ended without a
\* live value.
ResolvedByFallback(p) ==
    metricsCall.baselines[p].set /\ ~metricsCall.baselines[p].live.has

\* C11: a baseline resolved without a live value is the static constant of
\* the product's category: 5000 for Demographics, and a constant that no
\* other class of categories (Housing, Labour, Demographics, any other) has.
FallbackIsTheCategoryConstant ==
    \A p \in CatalogIds :
        ResolvedByFallback(p) =>
            /\ Category(p) = "Demographics" => metricsCall.baselines[p].v10 = 50000
            /\ \A c \in Categories \ {Category(p)} :
                    metricsCall.baselines[p].v10 # Fallback10(impl, c)

\* No fetchLiveBaseline call is in progress for product p.
NoFetchFor(p) ==
    \A b \in DOMAIN baselineCalls :
        baselineCalls[b].pc = "idle" \/ baselineCalls[b].productId # p

\* The step starts a getMetricsForPoints call that resolves product p.
StartsResolution(p) ==
    /\ metricsCall.pc = "idle"
    /\ metricsCall'.pc = "baselines"
    /\ \E b \in DOMAIN metricsCall'.products : metricsCall'.products[b] = p

\* C12: a fallback is never cached: after a failed resolution the cache has
\* no entry for the product, the next resolution sends a request, and a
\* resolution that gets a live value uses it and leaves it in the cache.
FallbackIsNotCached ==
    [][\A p \in CatalogIds :
        /\ hResolution'[p] = "failed" /\ NoFetchFor(p)' => ~baselineCache'[p].has
        /\ hResolution[p] = "failed" /\ StartsResolution(p) =>
                \E b \in DOMAIN baselineCalls :
                    /\ baselineCalls'[b].productId = p
                    /\ baselineCalls'[b].pc \in {"codesets", "data"}
        /\ /\ ~metricsCall.baselines[p].set
           /\ metricsCall'.baselines[p].set
           /\ metricsCall'.baselines[p].live.has
           => /\ metricsCall'.baselines[p].v10 = 10 * metricsCall'.baselines[p].live.v
              /\ baselineCache'[p] = metricsCall'.baselines[p].live]_vars

\* The amplitude stated for a category, in hundredths.
StatedAmplitudePct(category) == IF category = "Housing" THEN 25 ELSE 18

\* C13: a metric a step computes is baseline * (1 + amplitude * n), not
\* below 0, with amplitude 0.25 for Housing and 0.18 otherwise, and so lies
\* within baseline * (1 -+ amplitude).
SynthesisHasTheStatedAmplitude ==
    [][\A k \in DOMAIN points, p \in CatalogIds :
        ~points[k].metrics[p].has /\ points'[k].metrics[p].has =>
            LET b10 == metricsCall.baselines[p].v10
                a == StatedAmplitudePct(Category(p))
                x == b10 * (1000 + a * points[k].n1[p])
                v == points'[k].metrics[p].v
            IN  /\ v = IF x < 0 THEN 0 ELSE x
                /\ v >= b10 * (1000 - 10 * a)
                /\ v <= b10 * (1000 + 10 * a)]_vars

\* C14: no step changes a metric a point already has, and a call that ends
\* leaves every point with a metric for each of its products; so a second
\* call with the same arguments changes no metrics map.
MetricsAreComputedOnce ==
    [][\A k \in DOMAIN points, p \in CatalogIds :
        /\ points[k].metrics[p].has => points'[k].metrics[p] = points[k].metrics[p]
        /\ /\ metricsCall.pc = "baselines"
           /\ metricsCall'.pc = "done"
           /\ \E b \in DOMAIN metricsCall.products : metricsCall.products[b] = p
           => points'[k].metrics[p].has]_vars

\* A call has ended whose baseline for a product would have given another
\* value than the metric the point has kept.
MetricKeptUnderAnotherBaseline ==
    /\ metricsCall.pc = "done"
    /\ \E k \in DOMAIN points, b \in DOMAIN metricsCall.products :
        LET p == metricsCall.products[b]
        IN  /\ points[k].metrics[p].has
            /\ points[k].metrics[p].v #
                    Synthesized(impl, metricsCall.baselines[p].v10,
                                points[k].n1[p], Category(p))

-----------------------------------------------------------------------------
(* Properties of the metrics held in the Master Point Store (SpecApp) *)

\* The ids of the active products.
ActiveIds == {activeProducts[j] : j \in DOMAIN activeProducts}

\* C15: the metrics of every point in the Master Point Store are metrics of
\* active products.
MetricsKeysAreActiveProducts ==
    \A k \in DOMAIN masterPoints : masterPoints[k].metrics \subseteq ActiveIds

\* No handleLoadArea and no handleProductsChange is in flight.
HandlersIdle ==
    load.pc = "idle" /\ \A k \in DOMAIN changes : changes[k].pc = "idle"

\* C16: with no handler in flight, every point in the Master Point Store
\* has a metric for every active product.
StorePointsHaveEveryActiveMetric ==
    HandlersIdle =>
        \A k \in DOMAIN masterPoints : ActiveIds \subseteq masterPoints[k].metrics

\* The handlers in flight that write to the store or to its points: the
\* load, and the product changes awaiting getMetricsForPoints.
Writers ==
    {"load" : k \in {1} \cap {IF load.pc # "idle" THEN 1 ELSE 0}}
        \cup {TaskOfChange(k) : k \in {j \in DOMAIN changes : changes[j].pc = "metrics"}}

\* C17: while a load is in flight the load button is not offered, and at
\* most one handler that writes to the store is in flight.
OneWriterAtATime ==
    /\ load.pc # "idle" => ~(showLoadButton /\ tasks = <<>>)
    /\ Cardinality(Writers) <= 1

-----------------------------------------------------------------------------
(* Specification SpecCentroid: getCentroid on every geometry of a bounded
   family *)

Vertices == {Pt(x, y) : x, y \in 0..MaxCoordinate}

\* Every ring of up to MaxRingLen vertices.
Rings == UNION {[1..n -> Vertices] : n \in 0..MaxRingLen}

\* A rectangle in the closed form: the first vertex is repeated as the last.
ClosedRect(x0, y0, x1, y1) == Rect(x0, y0, x1, y1) \o << Pt(x0, y0) >>

RectCorners ==
    {c \in (0..(MaxCoordinate + 1)) \X (0..(MaxCoordinate + 1)) \X
           (0..(MaxCoordinate + 1)) \X (0..(MaxCoordinate + 1)) :
        c[1] < c[3] /\ c[2] < c[4]}

OpenRectRings == {Rect(c[1], c[2], c[3], c[4]) : c \in RectCorners}

RectRings == OpenRectRings \cup {ClosedRect(c[1], c[2], c[3], c[4]) : c \in RectCorners}

\* Polygons: without a ring, with one ring, and with a hole.
Polygons ==
    {Polygon(<< >>)} \cup {Polygon(<< r >>) : r \in Rings \cup RectRings}
        \cup {Polygon(<< r, Rect(1, 1, 2, 2) >>) : r \in OpenRectRings}

\* Sub-polygons: without a ring, and with an outer ring that is a
\* rectangle, a single vertex or empty.
SubPolygons ==
    {<< >>} \cup {<< r >> : r \in OpenRectRings}
        \cup {<< r >> : r \in {q \in Rings : Len(q) <= 1}}

MultiPolygons ==
    {MultiPolygon(ps) : ps \in UNION {[1..n -> SubPolygons] : n \in 0..2}}

\* Geometries of other types (getCentroid reads only their type).
OtherGeometries ==
    {NullGeometry, PointGeometry}
        \cup {[type |-> t, coordinates |-> << Pt(1, 1), Pt(2, 2) >>] :
                t \in {"LineString", "MultiPoint", "MultiLineString", "GeometryCollection"}}

Geometries == Polygons \cup MultiPolygons \cup OtherGeometries

InitCentroid ==
    /\ impl \in Impls
    /\ chunkSize = 1
    /\ source = NoSource
    /\ heap = [t \in LODLevel |-> <<>>]
    /\ cache = [t \in LODLevel |-> 0]
    /\ genCount = 0
    /\ calls = [c \in 1..MaxCalls |-> IdleCall]
    /\ WdsInit
    /\ AppInit
    /\ MetricsInit
    /\ givenGeometry \in Geometries
    /\ gotCentroid = NotCalled
    /\ BoundsInit
    /\ HistInit

NextCentroid ==
    CallGetCentroid /\ UNCHANGED <<svcVars, wdsVars, appVars, metricsVars, boundsVars, histVars>>

SpecCentroid == InitCentroid /\ [][NextCentroid]_vars

\* f[1] + ... + f[n]
RECURSIVE SumTo(_, _)
SumTo(f, n) == IF n = 0 THEN 0 ELSE f[n] + SumTo(f, n - 1)

\* The rational r is the mean of the k-th coordinates of the ring.
IsMeanOf(r, ring, k) ==
    r.num * Len(ring) = r.den * SumTo([i \in DOMAIN ring |-> ring[i][k]], Len(ring))

\* C18: getCentroid returns null for a geometry that is neither a Polygon
\* nor a MultiPolygon, and for a Polygon (with vertices in its outer ring)
\* the pair (mean of the second coordinates, mean of the first coordinates)
\* of the outer ring's vertices.
CentroidIsTheOuterRingMean ==
    gotCentroid # NotCalled =>
        /\ givenGeometry.type \notin {"Polygon", "MultiPolygon"} =>
                gotCentroid = CentroidNull
        /\ /\ givenGeometry.type = "Polygon"
           /\ givenGeometry.coordinates # << >>
           /\ givenGeometry.coordinates[1] # << >>
           => /\ gotCentroid.tag = "ok"
              /\ IsMeanOf(gotCentroid.lat, givenGeometry.coordinates[1], 2)
              /\ IsMeanOf(gotCentroid.lng, givenGeometry.coordinates[1], 1)

\* getCentroid returned a centroid whose latitude differs from its
\* longitude for a Polygon with a hole.
PolygonCentroidReturned ==
    /\ givenGeometry.type = "Polygon"
    /\ Len(givenGeometry.coordinates) = 2
    /\ gotCentroid.tag = "ok"
    /\ gotCentroid.lat.num # gotCentroid.lng.num

\* The geometry is a Polygon whose outer ring is an axis-aligned rectangle,
\* in the open or in the closed form.
IsRectangle(g) == g.type = "Polygon" /\ g.coordinates # << >> /\ g.coordinates[1] \in RectRings

\* C19: for a Polygon whose outer ring is an axis-aligned rectangle
\* getCentroid returns the center ((minLat + maxLat) / 2, (minLng + maxLng) / 2).
RectangleCentroidIsTheCenter ==
    gotCentroid # NotCalled /\ IsRectangle(givenGeometry) =>
        LET ring == givenGeometry.coordinates[1]
        IN  /\ gotCentroid.tag = "ok"
            /\ 2 * gotCentroid.lat.num =
                    gotCentroid.lat.den * (MinCoord(ring, 2) + MaxCoord(ring, 2))
            /\ 2 * gotCentroid.lng.num =
                    gotCentroid.lng.den * (MinCoord(ring, 1) + MaxCoord(ring, 1))

\* Every sub-polygon has an outer ring with vertices.
HasOuterRings(g) ==
    /\ g.coordinates # << >>
    /\ \A k \in DOMAIN g.coordinates :
            g.coordinates[k] # << >> /\ g.coordinates[k][1] # << >>

\* Sub-polygon k has the largest bounding-box area, and is the first to
\* have it.
IsFirstLargest(g, k) ==
    /\ \A j \in DOMAIN g.coordinates :
            BBoxArea(g.coordinates[j][1]).v <= BBoxArea(g.coordinates[k][1]).v
    /\ \A j \in 1..(k - 1) :
            BBoxArea(g.coordinates[j][1]).v < BBoxArea(g.coordinates[k][1]).v

\* C20: for a MultiPolygon (whose sub-polygons have outer rings with
\* vertices) getCentroid returns the vertex mean of one sub-polygon: the
\* first of those with the largest bounding-box area.
LargestSubPolygonGivesTheCentroid ==
    /\ gotCentroid # NotCalled
    /\ givenGeometry.type = "MultiPolygon"
    /\ HasOuterRings(givenGeometry)
    => \E k \in DOMAIN givenGeometry.coordinates :
            /\ IsFirstLargest(givenGeometry, k)
            /\ gotCentroid.tag = "ok"
            /\ IsMeanOf(gotCentroid.lat, givenGeometry.coordinates[k][1], 2)
            /\ IsMeanOf(gotCentroid.lng, givenGeometry.coordinates[k][1], 1)
            /\ gotCentroid.lat.den = Len(givenGeometry.coordinates[k][1])

\* Sub-polygons with bounding-box areas 4 and 9: the centroid (3/2, 3/2)
\* of the second was returned.
SecondSubPolygonSelected ==
    /\ givenGeometry = MultiPolygon(<< << Rect(0, 0, 2, 2) >>, << Rect(0, 0, 3, 3) >> >>)
    /\ gotCentroid.tag = "ok"
    /\ gotCentroid.lat = [num |-> 6, den |-> 4]
    /\ gotCentroid.lng = [num |-> 6, den |-> 4]

-----------------------------------------------------------------------------
(* Specification SpecBounds: isPointInBounds of both versions on every point
   and viewport of a bounded family *)

\* Latitudes in fifths, from -3 to 13.
Latitudes == {Rational(n, 5) : n \in -15..65}

\* Longitudes in fifths, around the edges of the viewports.
Longitudes ==
    {Rational(n, 5) : n \in {-11, -10, -6, -5, 0, 8, 9, 10, 15, 20, 21, 22, 23,
                             50, 55, 56, 60, 61}}

\* A viewport whose north lies below its south, and one without extent.
InvertedBounds == [north |-> 0, south |-> 10, east |-> 10, west |-> 0]

PointBounds == [north |-> 3, south |-> 3, east |-> 3, west |-> 3]

ProbeBounds == ViewBounds \cup {InvertedBounds, PointBounds}

InitBounds ==
    /\ impl \in Impls
    /\ chunkSize = 1
    /\ source = NoSource
    /\ heap = [t \in LODLevel |-> <<>>]
    /\ cache = [t \in LODLevel |-> 0]
    /\ genCount = 0
    /\ calls = [c \in 1..MaxCalls |-> IdleCall]
    /\ WdsInit
    /\ AppInit
    /\ MetricsInit
    /\ CentroidInit
    /\ givenPoint \in [lat : Latitudes, lng : Longitudes, bounds : ProbeBounds]
    /\ accepted = [im \in Impls |-> "none"]
    /\ HistInit

NextBounds ==
    \E im \in Impls :
        /\ CallIsPointInBounds(im)
        /\ UNCHANGED <<svcVars, wdsVars, appVars, metricsVars, centroidVars, histVars>>

SpecBounds == InitBounds /\ [][NextBounds]_vars

\* Buffer fractions from 0 to 1, in tenths.
BufferFractions == 0..10

\* C21: a point the 0.1 buffer accepts is accepted by the 0.2 buffer, and
\* for all buffer fractions f1 <= f2 a point in bounds with f1 is in bounds
\* with f2.
BufferIsMonotonic ==
    /\ accepted["part_000"] = "yes" /\ accepted["part_001"] # "none" =>
            accepted["part_001"] = "yes"
    /\ \A im \in Impls :
            accepted[im] = "yes" =>
                \A f \in BufferFractions :
                    f >= BufferTenths(im) =>
                        InBoundsWith(f, givenPoint.lat, givenPoint.lng, givenPoint.bounds)
    /\ \A f1, f2 \in BufferFractions :
            /\ f1 <= f2
            /\ InBoundsWith(f1, givenPoint.lat, givenPoint.lng, givenPoint.bounds)
            => InBoundsWith(f2, givenPoint.lat, givenPoint.lng, givenPoint.bounds)

\* Both versions have accepted a point that lies outside the viewport itself,
\* in its buffer.
BothBuffersAccepted ==
    /\ accepted["part_000"] = "yes"
    /\ accepted["part_001"] = "yes"
    /\ ~InBoundsWith(0, givenPoint.lat, givenPoint.lng, givenPoint.bounds)

-----------------------------------------------------------------------------
(* Properties of the identifiers streamShapes injects (SpecStream, SpecGeo) *)

\* The attribute that names the units of a tier.
PreferredKey(level) ==
    IF level = "PROVINCE" THEN "PRUID"
    ELSE IF level = "CMA" THEN "CMAUID"
    ELSE IF level = "CD" THEN "CDUID"
    ELSE IF level = "CCS" THEN "CCSUID"
    ELSE IF level = "FSA" THEN "CFSAUID"
    ELSE "DAUID"

\* The first non-empty value of the list that starts with the tier's own key
\* and goes on with the alternates.
StatedKey(props, level) ==
    IF props[PreferredKey(level)] # "" THEN props[PreferredKey(level)]
    ELSE NaturalKey(props)

\* C22: the identifier injected into an emitted feature that carries a key
\* is the first non-empty value of the list that starts with the key of the
\* stream's tier; a feature with its tier's key and a finer tier's key has
\* its tier's key as identifier.
IdIsTheTierKeyFirst ==
    \A c \in DOMAIN calls :
        calls[c].kind = "streamShapes" /\ calls[c].data # 0 =>
            \A k \in DOMAIN calls[c].out : \A j \in DOMAIN calls[c].out[k] :
                LET f == StreamedFeatures(calls[c])[calls[c].out[k][j]]
                    given == source[calls[c].level][calls[c].out[k][j]].properties
                IN  given.id = "" /\ NaturalKey(given) # "" =>
                        f.properties.id = StatedKey(given, calls[c].level)

\* The streamShapes call c has emitted feature k of its document.
Emitted(c, k) ==
    /\ calls[c].kind = "streamShapes"
    /\ calls[c].data # 0
    /\ \E b \in DOMAIN calls[c].out : \E j \in DOMAIN calls[c].out[b] : calls[c].out[b][j] = k

\* The identifier of feature k as the call c emitted it.
EmittedId(c, k) == StreamedFeatures(calls[c])[k].properties.id

\* Two calls over one tier and the same bounds have emitted feature k of the
\* tier's collection, which carries no key.
BothEmitted(c1, c2, k) ==
    /\ c1 # c2
    /\ Emitted(c1, k)
    /\ Emitted(c2, k)
    /\ calls[c1].level = calls[c2].level
    /\ calls[c1].bounds = calls[c2].bounds
    /\ source[calls[c1].level][k].properties = NoProps

\* C23: two streamShapes calls over one tier and the same bounds that do not
\* walk the same cached document resolve different identifiers for a feature
\* without a key, so that a store deduplicated by id holds the feature twice
\* after both results are merged; calls that walk the same document resolve
\* the same identifier.
GeneratedIdDependsOnTheCall ==
    \A c1, c2 \in DOMAIN calls : \A k \in 1..Len(source[calls[c1].level]) :
        BothEmitted(c1, c2, k) =>
            IF calls[c1].data # calls[c2].data
            THEN /\ EmittedId(c1, k) # EmittedId(c2, k)
                 /\ Len(MapSetAll(<<>>, << [id |-> EmittedId(c1, k)],
                                           [id |-> EmittedId(c2, k)] >>)) = 2
            ELSE EmittedId(c1, k) = EmittedId(c2, k)

\* Two calls over one tier have emitted one feature under two identifiers.
FeatureEmittedUnderTwoIds ==
    \E c1, c2 \in DOMAIN calls : \E k \in 1..Len(source[calls[c1].level]) :
        /\ BothEmitted(c1, c2, k)
        /\ calls[c1].data # calls[c2].data
        /\ EmittedId(c1, k) # EmittedId(c2, k)

-----------------------------------------------------------------------------
(* Properties of the load button (SpecReload) *)

\* The button is rendered: showLoadButton && tasks.length === 0.
LoadButtonShown == showLoadButton /\ tasks = <<>>

\* C24: once the zoom effect has run, the load button is not shown for a
\* zoom of 9 or less.
LoadButtonOnlyPastNine ==
    EffectsSettled /\ zoom <= 90 => ~LoadButtonShown

-----------------------------------------------------------------------------
(* Specification SpecCodeSets: the fetchLiveBaseline calls of SpecBaseline,
   with the history of the requests to the code-set endpoint *)

\* The requests counted at most (the count stays there).
CodeSetsCap == MaxCalls + 1

\* hCodeSets: how many requests for the code sets were sent (a call that
\* becomes suspended on fetchCodeSets has sent one), and whether one was
\* answered so far: "failed" when none had a usable answer, "ok" otherwise.
CodeSetsObserved(settled, usable) ==
    LET n == Cardinality({b \in DOMAIN baselineCalls :
                            /\ baselineCalls[b].pc # "codesets"
                            /\ baselineCalls'[b].pc = "codesets"})
    IN  hCodeSets' =
            [sent |-> IF hCodeSets.sent + n > CodeSetsCap THEN CodeSetsCap
                      ELSE hCodeSets.sent + n,
             outcome |-> IF ~settled THEN hCodeSets.outcome
                         ELSE IF usable \/ hCodeSets.outcome = "ok" THEN "ok"
                         ELSE "failed"]

Counted(A, settled, usable) ==
    /\ A /\ CodeSetsObserved(settled, usable)
    /\ UNCHANGED <<svcVars, appVars, metricsVars, centroidVars, boundsVars>>
    /\ UNCHANGED <<hTransition, hMerge, hLoads, hFetches, hBaseline, hResolution>>

NextCodeSets ==
    \/ \E b \in 1..MaxCalls, p \in CatalogIds :
            Counted(CallFetchLiveBaseline(b, p), FALSE, FALSE)
    \/ \E b \in 1..MaxCalls, r \in CodeSetReplies :
            Counted(SettleCodeSets(b, r), TRUE, r.ok)
    \/ \E b \in 1..MaxCalls, r \in DataReplies : Counted(SettleData(b, r), FALSE, FALSE)
    \/ \E b \in 1..MaxCalls : Counted(ReturnBaseline(b), FALSE, FALSE)

SpecCodeSets == InitBaseline /\ [][NextCodeSets]_vars

\* The table of the constructor: { 0: 1 }.
IdentityTable == [k \in ScalarCodeSet |-> IF k = 0 THEN 1 ELSE 0]

\* C25: at most one request is sent to the code-set endpoint, and while no
\* request for the code sets had a usable answer the scalar table is the
\* identity table.
CodeSetsAreFetchedOnce ==
    /\ hCodeSets.sent <= 1
    /\ hCodeSets.outcome = "failed" => scalarCodes = IdentityTable

-----------------------------------------------------------------------------
(* Properties of the walk of streamShapes (SpecStream, SpecStreamFair) *)

\* Feature k of the document of g is well formed and lies in the bounds.
WellFormedInBounds(g, k) ==
    /\ getCentroid(StreamedFeatures(g)[k].geometry).tag = "ok"
    /\ Qualifies(impl, StreamedFeatures(g)[k], g.bounds)

\* C26: no streamShapes call raises an error, and a call that has returned
\* has emitted every well-formed in-bounds feature of its collection,
\* whatever malformed features come before or after it.
MalformedGeometryIsSkipped ==
    \A c \in DOMAIN calls :
        calls[c].kind = "streamShapes" =>
            /\ calls[c].pc # "threw"
            /\ calls[c].pc = "done" /\ calls[c].data # 0 =>
                    \A k \in DOMAIN StreamedFeatures(calls[c]) :
                        WellFormedInBounds(calls[c], k) =>
                            \E b \in DOMAIN calls[c].out :
                                \E j \in DOMAIN calls[c].out[b] : calls[c].out[b][j] = k

\* The features of the collections walked under fairness: in bounds, out of
\* bounds, and a MultiPolygon without polygons.
WalkKinds ==
    { Feature(InPolygon, NoProps),
      Feature(OutPolygon, Props("", "", "", "", "cd2", "", "")),
      Feature(EmptyMultiPolygon, NoProps) }

WalkCollections == UNION {[1..n -> WalkKinds] : n \in 0..MaxLen}

InitWalk ==
    /\ impl \in Impls
    /\ chunkSize \in 1..MaxChunk
    /\ \E col \in WalkCollections : source = [NoSource EXCEPT ![StreamTier] = col]
    /\ heap = [t \in LODLevel |-> <<>>]
    /\ cache = [t \in LODLevel |-> 0]
    /\ genCount = 0
    /\ calls = [c \in 1..MaxCalls |-> IdleCall]
    /\ WdsInit
    /\ AppInit
    /\ MetricsInit
    /\ CentroidInit
    /\ BoundsInit
    /\ HistInit

\* One streamShapes call whose consumer keeps asking, whose timers fire and
\* whose request is answered.
SpecStreamFair == InitWalk /\ [][NextStream]_vars /\ WF_vars(NextStream)

\* The call c has returned after its loop went over the whole collection;
\* without a qualifying feature it has emitted nothing.
WalkedToTheEnd(c) ==
    /\ calls[c].pc = "done"
    /\ calls[c].data # 0 =>
            /\ calls[c].i = Len(StreamedFeatures(calls[c])) + 1
            /\ (\A k \in DOMAIN StreamedFeatures(calls[c]) :
                    ~WellFormedInBounds(calls[c], k)) => calls[c].out = <<>>

\* C27: the loop of a streamShapes call starts at the first feature and
\* moves on by one feature at a time, and every call eventually returns,
\* without an error, after its loop went over the whole collection.
StreamWalksToTheEnd ==
    /\ [][\A c \in DOMAIN calls :
            /\ calls[c].pc # "run" /\ calls'[c].pc = "run" /\ calls[c].pc # "timer"
                    => calls'[c].i = 1
            /\ calls[c].pc = "run" =>
                    calls'[c].i = calls[c].i \/ calls'[c].i = calls[c].i + 1]_vars
    /\ calls[1].kind = "streamShapes" ~> WalkedToTheEnd(1)

-----------------------------------------------------------------------------
(* Properties of the task list (SpecApp) *)

\* The init effect, handleLoadArea and handleProductsChange are not in
\* flight.
NoOperationInFlight == initPc \in {"mount", "done"} /\ HandlersIdle

\* The operation that added the task id is in flight.
TaskIsOwned(id) ==
    \/ id = "init" /\ initPc \in {"codesets", "geo"}
    \/ id = "load" /\ load.pc # "idle"
    \/ \E k \in DOMAIN changes : id = TaskOfChange(k) /\ changes[k].pc = "metrics"

\* C28: every task in the list belongs to an operation in flight; so with
\* no operation in flight the list is empty and does not hide the load
\* button.
NoTaskIsLeaked ==
    /\ \A j \in DOMAIN tasks : TaskIsOwned(tasks[j])
    /\ NoOperationInFlight => tasks = <<>>

\* The init effect has ended in its catch block and a load has ended with
\* the exception of its stream; no task is left.
FailedOperationsLeftNoTask ==
    /\ NoOperationInFlight
    /\ initPc = "done"
    /\ layerCache["PROVINCE"] = <<>>
    /\ P_POPULATION \notin loadedProductIds
    /\ source = AppSourceBroken
    /\ cache["CD"] # 0
    /\ tasks = <<>>

-----------------------------------------------------------------------------
(* Specification SpecRestore: area loads during which the view is not
   zoomed, so that no load sees a tier change between its click and its end *)

NextRestore ==
    \/ Plain(InitEffect)
    \/ Plain(InitCodeSetsSettle)
    \/ \E o \in Outcomes : Plain(ServiceStep(SettleFetchGeoJSON(InitCall, o)))
    \/ Plain(InitGeoDone)
    \/ \E z \in AppZooms : load.pc = "idle" /\ Plain(SetViewState(z))
    \/ Plain(ZoomEffect)
    \/ \E b \in ViewBounds : Plain(LoadClick(b))
    \/ \E o \in Outcomes : Plain(ServiceStep(SettleStreamFetch(LoadCall, o)))
    \/ Plain(StreamStep(LoadCall) /\ UNCHANGED appVars)
    \/ Plain(ServiceStep(StreamTimer(LoadCall)))
    \/ Plain(LoadConsume)
    \/ Plain(LoadStore)
    \/ Plain(LoadCatch)
    \/ Plain(LoadMetricsSettle)

SpecRestore == InitApp /\ [][NextRestore]_vars

\* The step ends a handleLoadArea whose stream raised no error.
LoadCompletes ==
    /\ load.pc # "idle"
    /\ load'.pc = "idle"
    /\ calls[LoadCall].pc # "threw"

\* C29: when a handleLoadArea for the active tier ends (no tier change since
\* its click), the Master Point Store holds a point for every feature of the
\* tier's collection whose centroid lies inside the load's buffered bounds.
LoadLeavesEveryInBoundsPoint ==
    [][LoadCompletes /\ lod = load.targetLevel /\ cache[load.targetLevel] # 0 =>
        LET T == load.targetLevel
            doc == cache[T]
        IN  \A k \in DOMAIN heap[T][doc].features :
                Qualifies(impl, heap[T][doc].features[k], load.bounds) =>
                    \E j \in DOMAIN masterPoints' :
                        masterPoints'[j].ref = <<T, doc, k>>]_vars

-----------------------------------------------------------------------------
(* Properties of the tier of an area load (SpecReload) *)

\* C30: once the zoom effect has run, a visible load button means a zoom
\* above 4 and an active tier other than PROVINCE (no zoom level offers the
\* button and selects PROVINCE); no handleLoadArea runs for the PROVINCE
\* tier and the Master Point Store holds no PROVINCE point.
LoadNeverTargetsProvince ==
    /\ EffectsSettled /\ showLoadButton => zoom > 40 /\ lod # "PROVINCE"
    /\ \A z \in 0..MaxZoom10 : LoadButtonFor(z) => LodOf(z) # "PROVINCE"
    /\ load.pc # "idle" => load.targetLevel # "PROVINCE"
    /\ \A j \in DOMAIN masterPoints : masterPoints[j].lod # "PROVINCE"

\* The button is offered for the tier CD after an area of the tier CCS was
\* loaded.
ButtonOfferedBelowProvince ==
    /\ EffectsSettled
    /\ showLoadButton
    /\ lod = "CD"
    /\ layerCache["CCS"] # <<>>

=============================================================================
